---- MODULE Spec2Model ----
(***************************************************************************)
(* A model of the treasury trading engine (src/lib/trading-engine.ts), of  *)
(* the route that triggers it (POST /api/treasury/trade) and of the        *)
(* collaborators it calls.                                                  *)
(*                                                                         *)
(* Numbers.  JavaScript numbers are modelled as decimal fixed-point        *)
(* integers with seven fractional digits: the integer v stands for         *)
(* v / ONE.  Products and quotients are rounded to the nearest unit, so a  *)
(* value carries an error of a few 1e-7, where an IEEE double carries a    *)
(* few 1e-16.  Prices, probabilities, percentage points, dollar amounts    *)
(* and share counts all use this one scale.                                *)
(***************************************************************************)
EXTENDS Integers, Sequences, FiniteSets, TLC

VARIABLES
  feed,           \* what the upstream services currently serve: [markets, spot]
  pending,        \* triggers of POST /api/treasury/trade not yet delivered
  pricesCache,    \* market-api.ts _prices: NoCache or the cached CoinPrice list
  marketsCache,   \* market-api.ts _polyGrouped: NoCache or the cached crypto list
  store,          \* execution-log-store: [logs |-> _lastLogs, positions |-> _lastPositions]
  pc,             \* per request: where its handler stands
  err,            \* per request: the exception travelling up from runTradingCycle, or NoErr
  markets,        \* per request: scanForEdge's cryptoMarkets
  signals,        \* per request: signals (scanForEdge's result, sizePositions' input)
  balance,        \* per request: sizePositions' balance
  totalExposure,  \* per request: sizePositions' totalExposure
  idx,            \* per request: position of the running for-loop (1-based)
  positions,      \* per request: positions (sizePositions' result)
  results,        \* per request: executeTrades' results
  scanLogs,       \* per request: scanForEdge's logs
  sizeLogs,       \* per request: sizePositions' logs
  execLogs,       \* per request: executeTrades' logs
  monitorLogs,    \* per request: monitorPositions' logs
  allLogs,        \* per request: runTradingCycle's allLogs
  response,       \* per request: the HTTP response, or NoResponse
  calls,          \* per request: the external calls made so far, in order (history)
  request,        \* per request: the Authorization header and CRON_SECRET it was handled with
  now,            \* Date.now(), in milliseconds since the process started
  cdf,            \* a call of normalCDF: its argument x and, once it returned, its value y
  derived,        \* the treasury page's derived values: what it read and, once computed, its signal
  apple           \* a call of getAppleHolders: its block range, loop variable, balances and result

vars == <<apple, derived, cdf, now, request, feed, pending, pricesCache, marketsCache, store, pc, err, markets,
          signals, balance, totalExposure, idx, positions, results, scanLogs,
          sizeLogs, execLogs, monitorLogs, allLogs, response, calls>>

(***************************************************************************)
(* Bounds of the model.                                                    *)
(***************************************************************************)
MaxOpenOrders == 1   \* longest open-order list the venue returns
MaxSignals == 9      \* longest signal list handed to sizePositions directly
MaxMixed == 2        \* longest such list drawn from every kind of signal
MaxBatch == 9        \* longest batch handed to executeTrades directly
MaxMonitored == 2    \* longest open-order list the monitor step is answered with
MaxFetches == 3      \* most calls of GET /api/treasury/prices in a row

Reqs == {1, 2}       \* the requests the route may be handling

(***************************************************************************)
(* Fixed-point arithmetic.                                                 *)
(***************************************************************************)
ONE == 10 * 1000 * 1000

Abs(x) == IF x < 0 THEN -x ELSE x
Sgn(x) == IF x < 0 THEN -1 ELSE 1
Min(x, y) == IF x <= y THEN x ELSE y
Max(x, y) == IF x >= y THEN x ELSE y

\* the one element of a singleton; {e : x \in {v}} computes v once and
\* binds it, where a LET would recompute v at every use of the name
Only(S) == CHOOSE x \in S : TRUE

\* the digit size the multiplication below can use without overflowing 32 bits
Radix(c) == IF c <= 16000000 THEN 64 ELSE IF c <= 140000000 THEN 8 ELSE 2

\* a * b = q * c + r with 0 <= r < c, for naturals, without forming a * b:
\* b is taken one digit at a time
RECURSIVE MulDivQR(_, _, _)
MulDivQR(a, b, c) ==
  IF b = 0 THEN [q |-> 0, r |-> 0]
  ELSE Only({ Only({ [q |-> Radix(c) * h.q + (b % Radix(c)) * (a \div c) + (r2 \div c),
                      r |-> r2 % c]
                     : r2 \in {Radix(c) * h.r + (b % Radix(c)) * (a % c)} })
              : h \in {MulDivQR(a, b \div Radix(c), c)} })

\* a * b / c rounded to the nearest integer
MulDivRounded(a, b, c) ==
  IF a = 0 \/ b = 0 THEN 0
  ELSE Only({ Sgn(a) * Sgn(b) * Sgn(c) * (h.q + (IF 2 * h.r >= Abs(c) THEN 1 ELSE 0))
              : h \in {MulDivQR(Abs(a), Abs(b), Abs(c))} })
MulDiv(a, b, c) == Only({ MulDivRounded(x, y, z) : x \in {a}, y \in {b}, z \in {c} })

FMul(x, y) == MulDiv(x, y, ONE)          \* x * y
FDiv(x, y) == MulDiv(x, ONE, y)          \* x / y
DivInt(x, n) == MulDiv(x, 1, n)          \* x / n for a whole number n
Floor_nearest(x) == (x + ONE \div 2) \div ONE   \* rounding where the code floors
Floor(x) == x \div ONE                   \* Math.floor, as a whole number
Round(x) == (x + ONE \div 2) \div ONE    \* Math.round, as a whole number

RECURSIVE SqrtIter(_, _)
SqrtIter(n, g) ==
  Only({ IF g2 >= g THEN g ELSE SqrtIter(n, g2) : g2 \in {(g + n \div g) \div 2} })
ISqrt(n) == IF n < 2 THEN n ELSE Only({ SqrtIter(m, m) : m \in {n} })
FSqrt(x) == ISqrt(x * ONE)               \* Math.sqrt

RECURSIVE ExpSeries(_, _, _, _)
ExpSeries(x, term, k, acc) ==
  IF term = 0 THEN acc
  ELSE Only({ ExpSeries(x, t, k + 1, s) : t \in {DivInt(FMul(term, x), k)},
                                          s \in {acc + term} })
RECURSIVE FExp(_)
FExp(x) ==                               \* Math.exp
  Only({ IF Abs(v) > ONE THEN Only({ FMul(h, h) : h \in {FExp(v \div 2)} })
         ELSE ExpSeries(v, ONE, 1, 0)
         : v \in {x} })

(***************************************************************************)
(* Model constants and risk limits (trading-engine.ts lines 13-27).        *)
(***************************************************************************)
SIGMA == ONE \div 2                      \* 0.50
T_EXP == 95                              \* 0.0000095
R_FREE == 433 * 1000                     \* 0.0433
EDGE_THRESHOLD_five == 5 * ONE           \* 5.0, another threshold
EDGE_THRESHOLD == 3 * ONE                \* 3.0
KELLY_FRACTION_half == ONE \div 2        \* 0.5, half-Kelly
KELLY_FRACTION == ONE \div 4             \* 0.25
MAX_POSITION_PCT_tenfold == ONE \div 2   \* 0.5, a slipped decimal point
MAX_POSITION_PCT == ONE \div 20          \* 0.05
MAX_TOTAL_EXPOSURE_PCT == 4 * (ONE \div 10)  \* 0.40
PER_CATEGORY == 3
DEFAULT_SPOT == 66235
SQRT2 == 14142136                        \* Math.SQRT2

(***************************************************************************)
(* Values.                                                                 *)
(***************************************************************************)
NoErr == "none"
NoCache == [set |-> FALSE, data |-> <<>>, ts |-> 0]
Cached(data, ts) == [set |-> TRUE, data |-> data, ts |-> ts]
Response(status, summary, logs, error) ==
  [status |-> status, summary |-> summary, logs |-> logs, error |-> error]
NoSummary == [trades |-> 0, skips |-> 0, errors |-> 0, totalLogs |-> 0]
NoResponse == Response(0, NoSummary, <<>>, NoErr)

\* a numeric string, as parseFloat sees it: a number, or no number at all
Str(v) == [num |-> TRUE, v |-> v]
NotANumber == [num |-> FALSE, v |-> 0]

\* parseFloat(s) || 0
ParseFloatOrZero(s) == IF s.num THEN s.v ELSE 0

Log(action, asset, details) == [action |-> action, asset |-> asset, details |-> details]
NoAsset == "-"

RECURSIVE Count(_, _)
Repeat(x, n) == [k \in 1..n |-> x]
Count(logs, action) ==
  IF logs = <<>> THEN 0
  ELSE (IF Head(logs).action = action THEN 1 ELSE 0) + Count(Tail(logs), action)

RECURSIVE SeqsUpTo(_, _)
SeqsUpTo(elems, n) ==
  IF n = 0 THEN {<<>>}
  ELSE Only({ shorter \cup {Append(l, x) : l \in {l2 \in shorter : Len(l2) = n - 1},
                                            x \in elems}
              : shorter \in {SeqsUpTo(elems, n - 1)} })

\* the sequences of at most n distinct elements of elems
ListsUpTo(elems, n) ==
  {l \in SeqsUpTo(elems, n) : \A i, j \in 1..Len(l) : i # j => l[i] # l[j]}

(***************************************************************************)
(* market-api.ts: the coins, and what the upstream services serve.         *)
(***************************************************************************)
SYMBOL_MAP ==
  << [id |-> "bitcoin",  symbol |-> "BTC"],
     [id |-> "ethereum", symbol |-> "ETH"],
     [id |-> "solana",   symbol |-> "SOL"],
     [id |-> "ripple",   symbol |-> "XRP"],
     [id |-> "pax-gold", symbol |-> "GOLD"] >>

ToLowerCase(s) ==
  CASE s = "BTC" -> "btc" [] s = "ETH" -> "eth" [] s = "SOL" -> "sol"
    [] s = "XRP" -> "xrp" [] s = "GOLD" -> "gold" [] OTHER -> s

\* an upstream answer that holds no entry for a coin: json[id] is undefined
Missing == -1

\* the CoinPrice list fetchPrices builds from an upstream answer that quotes
\* the same usd (whole dollars) for every coin, or holds no entry for any:
\* line 120 turns a missing quote into 0
CoinPrices(quote) ==
  [k \in 1..Len(SYMBOL_MAP) |->
     [id |-> SYMBOL_MAP[k].id, symbol |-> SYMBOL_MAP[k].symbol,
      usd |-> IF quote = Missing THEN 0 ELSE quote]]

\* A market: question is the set of coin names and symbols its lower-cased
\* question text contains; outcomePrices is the parsed JSON array (yes, no),
\* or <<>> for a string JSON.parse rejects.
Market(id, question, yes, no) ==
  [id |-> id, question |-> question, outcomePrices |-> <<yes, no>>]

MarketUniverse ==
  { Market("m1", {"bitcoin"},         4700000, 5300000),
    Market("m2", {"eth", "ethereum"}, 5500000, 4500000),
    Market("m3", {},                  4500000, 5500000),
    Market("m4", {"sol", "solana"},   1000000, 9000000),
    Market("m5", {"xrp"},             9900000,  100000),
    Market("m7", {"doge"},            4000000,  100000),
    [id |-> "m6", question |-> {"btc"}, outcomePrices |-> <<>>] }

\* pickBestMarket keeps a market only if its yes price parses and lies
\* strictly inside (0.02, 0.98)
PickBestKeeps(m) ==
  /\ Len(m.outcomePrices) = 2
  /\ ~(m.outcomePrices[1] <= 200000 \/ m.outcomePrices[1] >= 9800000)

\* lines 225-238: the score of a kept market whose volume is missing, and the
\* loop that keeps the first market of the highest score; <<>> stands for null
Score(m) == FMul(ONE - 2 * Abs(m.outcomePrices[1] - ONE \div 2), 7 * (ONE \div 10))
RECURSIVE pickBestMarket(_, _)
pickBestMarket(mkts, best) ==
  IF mkts = <<>> THEN best
  ELSE pickBestMarket(Tail(mkts),
         IF PickBestKeeps(Head(mkts)) /\ (best = <<>> \/ Score(Head(mkts)) > Score(best[1]))
         THEN <<Head(mkts)>> ELSE best)

\* a Gamma event: the categories whose pattern its title matches, whether the
\* blocklist matches it, and its markets
GammaEvent(allow, blocked, mkts) == [allow |-> allow, blocked |-> blocked, markets |-> mkts]
EventUniverse ==
  { GammaEvent({"crypto"}, FALSE, <<m>>) : m \in {m \in MarketUniverse : m.id # "m3"} }
  \cup { GammaEvent({"crypto", "politics"}, FALSE, <<m>>) : m \in {m \in MarketUniverse : m.id = "m3"} }
  \cup { GammaEvent({"crypto"}, TRUE, <<Market("m8", {"bitcoin"}, 5000000, 5000000)>>),
         GammaEvent({"politics"}, FALSE, <<Market("m9", {}, 5000000, 5000000)>>) }
MaxEvents == 4
EventLists == ListsUpTo(EventUniverse, MaxEvents)

Categories == <<"crypto", "ai", "sports", "politics">>
NoMarkets == [cat \in {"crypto", "ai", "sports", "politics"} |-> <<>>]

\* lines 269-278: the categories are tried in order; the event goes to the
\* first one that has room, whose pattern matches and for which a market is kept
RECURSIVE PlaceEvent_noLimit(_, _, _)
PlaceEvent_noLimit(evt, cats, result) ==
  IF cats = <<>> THEN result
  ELSE IF Head(cats) \notin evt.allow
       THEN PlaceEvent_noLimit(evt, Tail(cats), result)
  ELSE Only({ IF best # <<>> THEN [result EXCEPT ![Head(cats)] = Append(@, best[1])]
              ELSE PlaceEvent_noLimit(evt, Tail(cats), result)
              : best \in {pickBestMarket(evt.markets, <<>>)} })
RECURSIVE PlaceEvent(_, _, _)
PlaceEvent(evt, cats, result) ==
  IF cats = <<>> THEN result
  ELSE IF Len(result[Head(cats)]) >= PER_CATEGORY \/ Head(cats) \notin evt.allow
       THEN PlaceEvent(evt, Tail(cats), result)
  ELSE Only({ IF best # <<>> THEN [result EXCEPT ![Head(cats)] = Append(@, best[1])]
              ELSE PlaceEvent(evt, Tail(cats), result)
              : best \in {pickBestMarket(evt.markets, <<>>)} })

\* lines 265-279: the loop over the events
RECURSIVE Categorize(_, _)
Categorize(events, result) ==
  IF events = <<>> THEN result
  ELSE Categorize(Tail(events),
         IF Head(events).blocked THEN result
         ELSE PlaceEvent(Head(events), Categories, result))

\* the crypto lists fetchCategorizedMarkets can return
CryptoLists == { Categorize(events, NoMarkets).crypto : events \in EventLists }

SpotChoices == {Missing, 70000}

(***************************************************************************)
(* trading-engine.ts: the math.                                            *)
(***************************************************************************)
\* normalCDF with erf taken at |x| instead of |x| / sqrt(2)
normalCDF_unscaled(x) ==
  LET a1 == 2548296
      a2 == -2844967
      a3 == 14214137
      a4 == -14531520
      a5 == 10614054
      p == 3275911
      sign == IF x < 0 THEN -1 ELSE 1
      z == Abs(x)
      t == FDiv(ONE, ONE + FMul(p, z))
      y == ONE - FMul(FMul(FMul(FMul(FMul(FMul(a5, t) + a4, t) + a3, t) + a2, t) + a1, t),
                      FExp(-FMul(z, z)))
  IN FMul(ONE \div 2, ONE + sign * y)

normalCDF(x) ==
  LET a1 == 2548296
      a2 == -2844967
      a3 == 14214137
      a4 == -14531520
      a5 == 10614054
      p == 3275911
      sign == IF x < 0 THEN -1 ELSE 1
      z == FDiv(Abs(x), SQRT2)
      t == FDiv(ONE, ONE + FMul(p, z))
      y == ONE - FMul(FMul(FMul(FMul(FMul(FMul(a5, t) + a4, t) + a3, t) + a2, t) + a1, t),
                      FExp(-FMul(z, z)))
  IN FMul(ONE \div 2, ONE + sign * y)

parseOutcomePrices(raw) == IF Len(raw) = 2 THEN raw ELSE <<0, 0>>

(***************************************************************************)
(* scanForEdge, lines 104-153: the body of the loop for one market.        *)
(***************************************************************************)
\* prices.find(...): <<the first coin the question names>>, or <<>> for undefined
RECURSIVE Find(_, _, _)
Find(prices, market, k) ==
  IF k > Len(prices) THEN <<>>
  ELSE IF \/ ToLowerCase(prices[k].symbol) \in market.question
          \/ ToLowerCase(prices[k].id) \in market.question
       THEN <<prices[k]>>
       ELSE Find(prices, market, k + 1)

SignalSide_alwaysBuy(divergence) == "BUY"
SignalSide(divergence) == IF divergence > 0 THEN "BUY" ELSE "SELL"

HasEdge_oneSided(divergence) == divergence >= EDGE_THRESHOLD
HasEdge(divergence) == Abs(divergence) >= EDGE_THRESHOLD

\* lines 119-124: the Black-Scholes binary price; it reads the model
\* constants only, so every pass of the loop computes the same values
BinaryPricing ==
  LET sqrtT == FSqrt(T_EXP)
      d2 == FDiv(FMul(R_FREE - FMul(FMul(ONE \div 2, SIGMA), SIGMA), T_EXP),
                 FMul(SIGMA, sqrtT))
      Nd2 == normalCDF(d2)
      C_bin == FMul(FExp(-FMul(R_FREE, T_EXP)), Nd2)
      modelFair == C_bin * 100
  IN [d2 |-> d2, Nd2 |-> Nd2, modelFair |-> modelFair]

\* line 116: S, the usd of the matched coin or the fallback
SpotOf(matchedCoin) == IF matchedCoin = <<>> THEN DEFAULT_SPOT ELSE matchedCoin[1].usd

\* the pricing with the strike held at the fallback spot: worth nearly all or
\* nearly nothing as S lies above or below it
Pricing_fixedStrike(S) ==
  IF S > DEFAULT_SPOT THEN [BinaryPricing EXCEPT !.Nd2 = ONE, !.modelFair = 100 * ONE]
  ELSE IF S < DEFAULT_SPOT THEN [BinaryPricing EXCEPT !.Nd2 = 0, !.modelFair = 0]
  ELSE BinaryPricing
\* lines 119-124 as the loop runs them for a market whose spot is S: S does
\* not occur in them
Pricing(S) == BinaryPricing

ScanMarket(market, prices) ==
  Only({
    LET yesPrice == parseOutcomePrices(market.outcomePrices)[1]
        mktPrice == yesPrice * 100
        matchedCoin == Find(prices, market, 1)
        spot == SpotOf(matchedCoin)
        asset == IF matchedCoin = <<>> THEN "BTC" ELSE matchedCoin[1].symbol
        d2 == pricing.d2
        Nd2 == pricing.Nd2
        modelFair == pricing.modelFair
        divergence == modelFair - mktPrice
        side == SignalSide(divergence)
    IN IF yesPrice <= 200000 \/ yesPrice >= 9800000
       THEN [signals |-> <<>>, logs |-> <<>>]
       ELSE IF HasEdge(divergence)
       THEN [signals |-> << [asset |-> asset, market |-> market, modelFair |-> modelFair,
                             mktPrice |-> mktPrice, divergence |-> divergence,
                             side |-> side, d2 |-> d2, Nd2 |-> Nd2] >>,
             logs |-> << Log("SCAN", asset, <<"scan", mktPrice, modelFair>>),
                         Log("TRADE", asset, <<"signal", side, Abs(divergence)>>) >>]
       ELSE [signals |-> <<>>,
             logs |-> << Log("SCAN", asset, <<"scan", mktPrice, modelFair>>),
                         Log("SKIP", asset, <<"sub_threshold", Abs(divergence)>>) >>]
    : pricing \in {Pricing(SpotOf(Find(prices, market, 1)))} })

RECURSIVE ScanLoop_lastFirst(_, _)
ScanLoop_lastFirst(cryptoMarkets, prices) ==
  IF cryptoMarkets = <<>> THEN [signals |-> <<>>, logs |-> <<>>]
  ELSE LET one == ScanMarket(Head(cryptoMarkets), prices)
           rest == ScanLoop_lastFirst(Tail(cryptoMarkets), prices)
       IN [signals |-> rest.signals \o one.signals, logs |-> rest.logs \o one.logs]

\* lines 104-153: the loop over cryptoMarkets, in the order of the list
RECURSIVE ScanLoop(_, _)
ScanLoop(cryptoMarkets, prices) ==
  IF cryptoMarkets = <<>> THEN [signals |-> <<>>, logs |-> <<>>]
  ELSE LET one == ScanMarket(Head(cryptoMarkets), prices)
           rest == ScanLoop(Tail(cryptoMarkets), prices)
       IN [signals |-> one.signals \o rest.signals, logs |-> one.logs \o rest.logs]

(***************************************************************************)
(* polymarket-clob.ts: what the venue can answer.                          *)
(***************************************************************************)
OpenOrder(id, side, price, original_size, size_matched) ==
  [id |-> id, asset_id |-> id, side |-> side, price |-> Str(price),
   original_size |-> Str(original_size), size_matched |-> Str(size_matched)]

OpenOrderUniverse ==
  { OpenOrder("o1", "BUY", 3800000, 100 * ONE, 0),
    OpenOrder("o2", "SELL", 4000000, 100 * ONE, 50 * ONE) }

Failed == [ok |-> FALSE, value |-> <<>>]
Ok(value) == [ok |-> TRUE, value |-> value]

\* getOpenOrders(): the call throws, or resolves to a list of open orders
OpenOrdersOutcomes == {Failed} \cup {Ok(l) : l \in ListsUpTo(OpenOrderUniverse, MaxOpenOrders)}

\* getOpenOrders() as monitorPositions calls it, after the orders of the
\* cycle were placed: the call throws, or resolves to a list that may hold a
\* further, partly matched order
MonitoredUniverse == OpenOrderUniverse \cup {OpenOrder("o3", "BUY", 4500000, 20 * ONE, 10 * ONE)}
MonitorOutcomes == {Failed} \cup {Ok(l) : l \in ListsUpTo(MonitoredUniverse, MaxMonitored)}

\* getClobBalance(): the call throws, or resolves to { balance: string }
BalanceOutcomes ==
  {Failed} \cup {Ok(<<b>>) : b \in {NotANumber, Str(0), Str(-5 * ONE), Str(ONE),
                                  Str(375 * (ONE \div 10)), Str(100 * ONE)}}

\* NaN, kept below every amount: like NaN it is neither >= nor > any amount
NaN == -1073741824
parseFloat(s) == IF s.num THEN s.v ELSE NaN
\* the product and the sum of two numbers either of which may be NaN
Mul(x, y) == IF x = NaN \/ y = NaN THEN NaN ELSE FMul(x, y)
Add(x, y) == IF x = NaN \/ y = NaN THEN NaN ELSE x + y

\* an open order whose price is not the text of a number
MalformedOrder ==
  [id |-> "o4", asset_id |-> "o4", side |-> "BUY", price |-> NotANumber,
   original_size |-> Str(100 * ONE), size_matched |-> Str(0)]
\* getOpenOrders() when the venue may list the malformed order
MalformedOutcomes ==
  {Failed} \cup {Ok(l) : l \in ListsUpTo(OpenOrderUniverse \cup {MalformedOrder}, MaxOpenOrders)}

(***************************************************************************)
(* sizePositions, lines 181-218.                                           *)
(***************************************************************************)
RECURSIVE OpenExposure(_)
OpenExposure(openOrders) ==
  IF openOrders = <<>> THEN 0
  ELSE Add(Mul(parseFloat(Head(openOrders).original_size),
                   parseFloat(Head(openOrders).price)),
            OpenExposure(Tail(openOrders)))

\* lines 201-212: the position a signal is sized to
SizedPosition(signal, bal) ==
  LET maxPerPosition == FMul(bal, MAX_POSITION_PCT)
      p == DivInt(signal.modelFair, 100)
      mktP == DivInt(signal.mktPrice, 100)
      b == IF signal.side = "BUY" THEN FDiv(ONE, mktP) - ONE
                                  ELSE FDiv(ONE, ONE - mktP) - ONE
      q == ONE - p
      kellyRaw == FDiv(FMul(p, b) - q, b)
      kellyFraction == Max(0, Min(FMul(kellyRaw, KELLY_FRACTION), MAX_POSITION_PCT))
      sizeUSD == Min(FMul(bal, kellyFraction), maxPerPosition)
      price == IF signal.side = "BUY" THEN mktP ELSE ONE - mktP
      shares == Floor(FDiv(sizeUSD, price))
  IN [signal |-> signal, kellyFraction |-> kellyFraction, sizeUSD |-> sizeUSD,
      shares |-> shares]

\* An EdgeSignal handed to sizePositions by a caller other than the scan
SignalInput(asset, side, modelFair, yes) ==
  [asset |-> asset, market |-> Market("mx", {}, yes, ONE - yes),
   modelFair |-> modelFair, mktPrice |-> yes * 100,
   divergence |-> modelFair - yes * 100, side |-> side, d2 |-> 0, Nd2 |-> 0]

\* a quarter-Kelly stake below the per-position cap (4.59 % of the balance)
SignalBelowCap == SignalInput("BTC", "BUY", 60 * ONE, 5100000)
\* a quarter-Kelly stake of 15 %, which the cap cuts to 5 %
SignalAtCap == SignalInput("ETH", "BUY", 80 * ONE, 5000000)
\* a negative Kelly stake
SignalNoStake == SignalInput("SOL", "SELL", 30 * ONE, 5000000)
\* a SELL with a positive stake (2.26 %)
SignalSell == SignalInput("XRP", "SELL", BinaryPricing.modelFair, 5500000)

\* model 55 against a market at 0.50: a quarter-Kelly stake of 2.5 %
SignalKelly == SignalInput("GOLD", "BUY", 55 * ONE, 5000000)

\* a yes price of 0.026, which lies between two ticks of the venue
SignalOffTick == SignalInput("DOGE", "BUY", BinaryPricing.modelFair, 260000)
SignalInputs == {SignalBelowCap, SignalAtCap, SignalNoStake, SignalSell, SignalKelly}

\* the signal lists sizePositions is called with: short lists of every kind
\* of signal, and long lists of the signals that take a stake
SignalLists ==
  SeqsUpTo(SignalInputs, MaxMixed) \cup SeqsUpTo({SignalBelowCap, SignalAtCap}, MaxSignals)

\* line 175: the balance that halts sizing
NoFunds_zeroOnly(bal) == bal = 0
NoFunds(bal) == bal <= 0

\* line 195: the circuit breaker
CapReached_strict(exposure, bal) == exposure > FMul(bal, MAX_TOTAL_EXPOSURE_PCT)
CapReached(exposure, bal) == exposure >= FMul(bal, MAX_TOTAL_EXPOSURE_PCT)

(***************************************************************************)
(* The state machine.  An action is what one handler does between two      *)
(* awaits; a request's pc names the await it is suspended at.              *)
(***************************************************************************)
Set(f, r, v) == [f EXCEPT ![r] = v]
Called(r, call) == calls' = [calls EXCEPT ![r] = Append(@, call)]

\* fetchPrices / fetchCategorizedMarkets: answered from the fresh cache,
\* answered upstream, upstream failed with a cache entry to fall back on,
\* or upstream failed with none
FetchOutcomes == {"hit", "ok", "stale", "throw"}

\* market-api.ts lines 108 and 250: the age below which a cache entry is served
PRICES_TTL == 30000
MARKETS_TTL == 60000
IsFresh(cache, ttl) == cache.set /\ now - cache.ts < ttl

\* "hit": the entry is fresh and no request is made.  Otherwise the upstream
\* is asked: "ok" is a 2xx answer, "stale" a 429 or a failure with an entry
\* to fall back on, "throw" a failure without one.
FetchPossible(outcome, cache, ttl) ==
  CASE outcome = "hit" -> IsFresh(cache, ttl)
    [] outcome = "stale" -> ~IsFresh(cache, ttl) /\ cache.set
    [] outcome = "throw" -> ~IsFresh(cache, ttl) /\ ~cache.set
    [] OTHER -> ~IsFresh(cache, ttl)
FetchResult(outcome, cache, upstream) == IF outcome = "ok" THEN upstream ELSE cache.data
FetchCache_always(outcome, cache, upstream) ==
  IF outcome = "throw" THEN cache ELSE Cached(upstream, now)
FetchCache(outcome, cache, upstream) ==
  IF outcome = "ok" THEN Cached(upstream, now) ELSE cache
FetchAnswer(outcome, cache, upstream) ==
  [ok |-> outcome # "throw", upstream |-> outcome # "hit",
   value |-> FetchResult(outcome, cache, upstream)]

\* the request is inside runTradingCycle
InCycle(r) ==
  pc[r] \in {"scan", "scan_return", "size_balance", "size_orders", "size_loop",
             "size_return", "execute", "exec_return", "monitor", "monitor_return"}

\* POST /api/treasury/trade, lines 30-39: the authorization check, then the
\* call of runTradingCycle, which calls scanForEdge, which starts both fetches
\* process.env.CRON_SECRET: unset, set to the empty string, or set
Undefined == "undefined"
CronSecrets == {Undefined, "", "s3cret"}

\* `Bearer ${cronSecret}`: the template prints an unset secret as "undefined"
BearerOf(cronSecret) == <<"Bearer ", cronSecret>>

\* request.headers.get('authorization'): null (here the empty sequence) when
\* the header is missing, otherwise its text, split after the scheme
NoHeader == <<>>
AuthHeaders == {NoHeader, <<"Bearer ", "s3cret">>, <<"Bearer ", "wrong">>,
                <<"Bearer ", "undefined">>, <<"Bearer ", "">>, <<"s3cret">>}
NoRequest == [authorization |-> NoHeader, cronSecret |-> Undefined]
\* a request as it will reach the route: its header, and the secret the
\* process is configured with when it arrives
Requests == [authorization : AuthHeaders, cronSecret : CronSecrets]

\* line 31: the guard of the route
Authorized_headerOnly(authHeader, cronSecret) == authHeader = BearerOf(cronSecret)
Authorized(authHeader, cronSecret) ==
  ~(cronSecret \in {Undefined, ""} \/ authHeader # BearerOf(cronSecret))

Trigger(r) ==
  /\ r \in pending
  /\ pc[r] = "idle"
  /\ pending' = pending \ {r}
  /\ IF Authorized(request[r].authorization, request[r].cronSecret)
     THEN /\ pc' = Set(pc, r, "scan")
          /\ UNCHANGED response
     ELSE /\ pc' = Set(pc, r, "done")
          /\ response' = Set(response, r, Response(401, NoSummary, <<>>, "Unauthorized"))
  /\ UNCHANGED <<apple, derived, cdf, now, request, feed, pricesCache, marketsCache, store, err, markets, signals, balance,
                 totalExposure, idx, positions, results, scanLogs, sizeLogs, execLogs,
                 monitorLogs, allLogs, calls>>

\* scanForEdge, lines 93-156: both fetches settle, then the loop over the
\* crypto markets runs to its end
Scan(r) ==
  /\ pc[r] = "scan"
  /\ \E po \in FetchOutcomes, mo \in FetchOutcomes :
       /\ FetchPossible(po, pricesCache, PRICES_TTL)
       /\ FetchPossible(mo, marketsCache, MARKETS_TTL)
       /\ pricesCache' = FetchCache(po, pricesCache, CoinPrices(feed.spot))
       /\ marketsCache' = FetchCache(mo, marketsCache, feed.markets)
       /\ calls' = Set(calls, r, calls[r] \o
            << <<"fetchPrices", FetchAnswer(po, pricesCache, CoinPrices(feed.spot))>>,
               <<"fetchCategorizedMarkets", FetchAnswer(mo, marketsCache, feed.markets)>> >>)
       /\ IF po = "throw" \/ mo = "throw"
          THEN /\ err' = Set(err, r, "fetch failed")
               /\ pc' = Set(pc, r, "respond")
               /\ UNCHANGED <<markets, signals, scanLogs>>
          ELSE LET prices == FetchResult(po, pricesCache, CoinPrices(feed.spot))
                   cryptoMarkets == FetchResult(mo, marketsCache, feed.markets)
                   scan == ScanLoop(cryptoMarkets, prices)
               IN /\ markets' = Set(markets, r, cryptoMarkets)
                  /\ signals' = Set(signals, r, scan.signals)
                  /\ scanLogs' = Set(scanLogs, r, scan.logs)
                  /\ pc' = Set(pc, r, "scan_return")
                  /\ UNCHANGED err
  /\ UNCHANGED <<apple, derived, cdf, now, request, feed, pending, store, balance, totalExposure, idx, positions, results,
                 sizeLogs, execLogs, monitorLogs, allLogs, response>>

\* line 317: the scan found nothing to trade
NoSignals_never(sigs) == FALSE
NoSignals(sigs) == Len(sigs) = 0

\* runTradingCycle, lines 313-322
ScanReturn(r) ==
  /\ pc[r] = "scan_return"
  /\ IF NoSignals(signals[r])
     THEN /\ allLogs' = Set(allLogs, r, allLogs[r] \o scanLogs[r]
                                \o <<Log("SKIP", NoAsset, <<"no_signals">>)>>)
          /\ pc' = Set(pc, r, "respond")
     ELSE /\ allLogs' = Set(allLogs, r, allLogs[r] \o scanLogs[r])
          /\ pc' = Set(pc, r, "size_balance")
  /\ UNCHANGED <<apple, derived, cdf, now, request, feed, pending, pricesCache, marketsCache, store, err, markets, signals,
                 balance, totalExposure, idx, positions, results, scanLogs, sizeLogs,
                 execLogs, monitorLogs, response, calls>>

\* sizePositions, lines 164-186: the balance lookup settles
SizeBalance(r) ==
  /\ pc[r] = "size_balance"
  /\ \E balanceData \in BalanceOutcomes :
       /\ Called(r, <<"getClobBalance", balanceData>>)
       /\ IF ~balanceData.ok
          THEN /\ sizeLogs' = Set(sizeLogs, r, <<Log("ERROR", NoAsset, <<"balance_failed">>)>>)
               /\ pc' = Set(pc, r, "size_return")
               /\ UNCHANGED <<balance, totalExposure>>
          ELSE LET bal == ParseFloatOrZero(balanceData.value[1])
               IN IF NoFunds(bal)
                  THEN /\ sizeLogs' = Set(sizeLogs, r,
                                          <<Log("HALT", NoAsset, <<"zero_balance">>)>>)
                       /\ pc' = Set(pc, r, "size_return")
                       /\ UNCHANGED <<balance, totalExposure>>
                  ELSE /\ balance' = Set(balance, r, bal)
                       /\ totalExposure' = Set(totalExposure, r, 0)
                       /\ pc' = Set(pc, r, "size_orders")
                       /\ UNCHANGED sizeLogs
  /\ UNCHANGED <<apple, derived, cdf, now, request, feed, pending, pricesCache, marketsCache, store, err, markets, signals,
                 idx, positions, results, scanLogs, execLogs, monitorLogs, allLogs,
                 response>>

\* sizePositions, lines 185-194: the open-order lookup settles
SizeOrdersFrom(r, outcomes) ==
  /\ pc[r] = "size_orders"
  /\ \E openOrders \in outcomes :
       /\ Called(r, <<"getOpenOrders", openOrders>>)
       /\ totalExposure' = Set(totalExposure, r,
             IF openOrders.ok THEN Add(totalExposure[r], OpenExposure(openOrders.value))
                              ELSE totalExposure[r])
  /\ idx' = Set(idx, r, 1)
  /\ pc' = Set(pc, r, IF Len(signals[r]) = 0 THEN "size_return" ELSE "size_loop")
  /\ UNCHANGED <<apple, derived, cdf, now, request, feed, pending, pricesCache, marketsCache, store, err, markets, signals,
                 balance, positions, results, scanLogs, sizeLogs, execLogs, monitorLogs,
                 allLogs, response>>

SizeOrders(r) == SizeOrdersFrom(r, OpenOrdersOutcomes)
\* the same lookup at a venue that may list the malformed order
SizeOrdersMalformed(r) == SizeOrdersFrom(r, MalformedOutcomes)

\* lines 208 and 214: the two `continue` tests
Dropped_never(pos) == FALSE
Dropped(pos) == pos.kellyFraction <= 0 \/ pos.shares <= 0

\* sizePositions, lines 194-220: one pass of the loop over the signals
SizeSignal(r) ==
  /\ pc[r] = "size_loop"
  /\ LET signal == signals[r][idx[r]]
         pos == SizedPosition(signal, balance[r])
         last == idx[r] = Len(signals[r])
     IN IF CapReached(totalExposure[r], balance[r])
        THEN /\ sizeLogs' = Set(sizeLogs, r,
                                Append(sizeLogs[r], Log("HALT", NoAsset, <<"max_exposure">>)))
             /\ pc' = Set(pc, r, "size_return")
             /\ UNCHANGED <<positions, totalExposure, idx>>
        ELSE /\ IF Dropped(pos)
                THEN UNCHANGED <<positions, totalExposure>>
                ELSE /\ positions' = Set(positions, r, Append(positions[r], pos))
                     /\ totalExposure' = Set(totalExposure, r,
                                              Add(totalExposure[r], pos.sizeUSD))
             /\ idx' = Set(idx, r, idx[r] + 1)
             /\ pc' = Set(pc, r, IF last THEN "size_return" ELSE "size_loop")
             /\ UNCHANGED sizeLogs
  /\ UNCHANGED <<apple, derived, cdf, now, request, feed, pending, pricesCache, marketsCache, store, err, markets, signals,
                 balance, results, scanLogs, execLogs, monitorLogs, allLogs, response,
                 calls>>

\* runTradingCycle, lines 322-331
SizeReturn(r) ==
  /\ pc[r] = "size_return"
  /\ IF Len(positions[r]) = 0
     THEN /\ allLogs' = Set(allLogs, r, allLogs[r] \o sizeLogs[r]
                                \o <<Log("SKIP", NoAsset, <<"no_positions">>)>>)
          /\ pc' = Set(pc, r, "respond")
          /\ UNCHANGED idx
     ELSE /\ allLogs' = Set(allLogs, r, allLogs[r] \o sizeLogs[r])
          /\ pc' = Set(pc, r, "execute")
          /\ idx' = Set(idx, r, 1)
  /\ UNCHANGED <<apple, derived, cdf, now, request, feed, pending, pricesCache, marketsCache, store, err, markets, signals,
                 balance, totalExposure, positions, results, scanLogs, sizeLogs, execLogs,
                 monitorLogs, response, calls>>

\* lines 232-267: the try/catch sits inside the loop, so the loop goes on to
\* the next position whether the order was placed or not
ExecNext_abortOnFailure(placed, last) ==
  IF last \/ ~placed THEN "exec_return" ELSE "execute"
ExecNext(placed, last) == IF last THEN "exec_return" ELSE "execute"

\* line 232: the for-of loop moves to the next position after either outcome
NextPosition_retry(placed, i) == IF placed THEN i + 1 ELSE i
NextPosition(placed, i) == i + 1

\* executeTrades, lines 232-268: one pass of the loop; the order placement settles
ExecOrder(r) ==
  /\ pc[r] = "execute"
  /\ LET pos == positions[r][idx[r]]
         yesPrice == parseOutcomePrices(pos.signal.market.outcomePrices)[1]
         price == IF pos.signal.side = "BUY" THEN yesPrice ELSE ONE - yesPrice
         order == [tokenID |-> pos.signal.market.id, price |-> Round(price * 100) * (ONE \div 100),
                   size |-> pos.shares, side |-> pos.signal.side]
         last == idx[r] = Len(positions[r])
     IN /\ Called(r, <<"placeOrder", order>>)
        /\ \E placed \in BOOLEAN :
             /\ IF placed
                THEN /\ results' = Set(results, r, Append(results[r],
                                      [position |-> pos, orderID |-> "oid", status |-> "live"]))
                     /\ execLogs' = Set(execLogs, r, Append(execLogs[r],
                                      Log("TRADE", pos.signal.asset, <<"order", pos.signal.side>>)))
                ELSE /\ execLogs' = Set(execLogs, r, Append(execLogs[r],
                                      Log("ERROR", pos.signal.asset, <<"order_failed">>)))
                     /\ UNCHANGED results
             /\ pc' = Set(pc, r, ExecNext(placed, last))
             /\ idx' = Set(idx, r, NextPosition(placed, idx[r]))
  /\ UNCHANGED <<apple, derived, cdf, now, request, feed, pending, pricesCache, marketsCache, store, err, markets, signals,
                 balance, totalExposure, positions, scanLogs, sizeLogs, monitorLogs,
                 allLogs, response>>

\* runTradingCycle, lines 331-335
ExecReturn(r) ==
  /\ pc[r] = "exec_return"
  /\ allLogs' = Set(allLogs, r, allLogs[r] \o execLogs[r])
  /\ pc' = Set(pc, r, "monitor")
  /\ UNCHANGED <<apple, derived, cdf, now, request, feed, pending, pricesCache, marketsCache, store, err, markets, signals,
                 balance, totalExposure, idx, positions, results, scanLogs, sizeLogs,
                 execLogs, monitorLogs, response, calls>>

RECURSIVE MonitorLoop_everyOrder(_)
MonitorLoop_everyOrder(openOrders) ==
  IF openOrders = <<>> THEN <<>>
  ELSE <<Log("SCAN", NoAsset, <<"monitoring", Head(openOrders).asset_id>>)>>
       \o MonitorLoop_everyOrder(Tail(openOrders))

\* lines 280-293: the loop over the open orders
RECURSIVE MonitorLoop(_)
MonitorLoop(openOrders) ==
  IF openOrders = <<>> THEN <<>>
  ELSE (IF parseFloat(Head(openOrders).size_matched) > 0
        THEN <<Log("SCAN", NoAsset, <<"monitoring", Head(openOrders).asset_id>>)>>
        ELSE <<>>) \o MonitorLoop(Tail(openOrders))

\* monitorPositions, lines 274-303
Monitor(r) ==
  /\ pc[r] = "monitor"
  /\ \E openOrders \in MonitorOutcomes :
       /\ Called(r, <<"getOpenOrders", openOrders>>)
       /\ monitorLogs' = Set(monitorLogs, r,
             IF openOrders.ok THEN MonitorLoop(openOrders.value)
                              ELSE <<Log("ERROR", NoAsset, <<"monitor_failed">>)>>)
  /\ pc' = Set(pc, r, "monitor_return")
  /\ UNCHANGED <<apple, derived, cdf, now, request, feed, pending, pricesCache, marketsCache, store, err, markets, signals,
                 balance, totalExposure, idx, positions, results, scanLogs, sizeLogs,
                 execLogs, allLogs, response>>

\* runTradingCycle, lines 335-338
MonitorReturn(r) ==
  /\ pc[r] = "monitor_return"
  /\ allLogs' = Set(allLogs, r, allLogs[r] \o monitorLogs[r])
  /\ pc' = Set(pc, r, "respond")
  /\ UNCHANGED <<apple, derived, cdf, now, request, feed, pending, pricesCache, marketsCache, store, err, markets, signals,
                 balance, totalExposure, idx, positions, results, scanLogs, sizeLogs,
                 execLogs, monitorLogs, response, calls>>

\* POST /api/treasury/trade, lines 39-59: runTradingCycle has returned or thrown
\* execution-log-store setExecutionLogs(): the store after the call
setExecutionLogs_append(logs, lastPositions) ==
  [logs |-> store.logs \o logs, positions |-> store.positions \o lastPositions]
setExecutionLogs(logs, lastPositions) == [logs |-> logs, positions |-> lastPositions]

Respond(r) ==
  /\ pc[r] = "respond"
  /\ IF err[r] = NoErr
     THEN LET logs == allLogs[r]
          IN /\ store' = setExecutionLogs(logs, <<>>)
             /\ response' = Set(response, r, Response(200,
                   [trades |-> Count(logs, "TRADE"), skips |-> Count(logs, "SKIP"),
                    errors |-> Count(logs, "ERROR"), totalLogs |-> Len(logs)],
                   logs, NoErr))
     ELSE /\ response' = Set(response, r, Response(500, NoSummary, <<>>, err[r]))
          /\ UNCHANGED store
  /\ pc' = Set(pc, r, "done")
  /\ UNCHANGED <<apple, derived, cdf, now, request, feed, pending, pricesCache, marketsCache, err, markets, signals, balance,
                 totalExposure, idx, positions, results, scanLogs, sizeLogs, execLogs,
                 monitorLogs, allLogs, calls>>

(***************************************************************************)
(* POST /api/treasury/distribute (part_004).                               *)
(***************************************************************************)
\* the x-admin-secret header (null when missing) and process.env.ADMIN_SECRET
NullHeader == "null"
AdminHeaders == {NullHeader, "", "adm1n", "wrong"}
AdminSecrets == {Undefined, "", "adm1n"}

\* line 17: the guard of the route
AdminAuthorized(adminSecret, envSecret) ==
  ~(adminSecret \in {NullHeader, ""} \/ adminSecret # envSecret)

\* body.epochPnL as it arrives: whole says the value is a number or the text
\* of one; lead says it starts with the text of a number, which is all that
\* parseFloat reads, and v is that number
EpochValue(text, whole, lead, v) == [text |-> text, whole |-> whole, lead |-> lead, v |-> v]
EpochValues ==
  { EpochValue("100", TRUE, TRUE, 100 * ONE),
    EpochValue("3", TRUE, TRUE, 3 * ONE),
    EpochValue("0", TRUE, TRUE, 0),
    EpochValue("-5", TRUE, TRUE, -5 * ONE),
    EpochValue("abc", FALSE, FALSE, 0),
    EpochValue("12abc", FALSE, TRUE, 12 * ONE),
    EpochValue("undefined", FALSE, FALSE, 0) }
parseFloatLead(value) == IF value.lead THEN Str(value.v) ELSE NotANumber

\* the request body: text that request.json() rejects, or an object
BadJson == [json |-> FALSE, epochPnL |-> EpochValue("", FALSE, FALSE, 0)]
Bodies == {BadJson} \cup {[json |-> TRUE, epochPnL |-> e] : e \in EpochValues}
DistributeRequests == [adminSecret : AdminHeaders, envSecret : AdminSecrets, body : Bodies]

(***************************************************************************)
(* IEEE doubles, for the products and the sum of lines 35-36.  A double is *)
(* held exactly, as a whole number of units of 2^-55 written in digits of  *)
(* base 2^15, lowest digit first and no zero digit on top.                  *)
(***************************************************************************)
Base == 8 * 4096
RECURSIVE Pow2(_)
Pow2(d) == IF d = 0 THEN 1 ELSE 2 * Pow2(d - 1)
RECURSIVE BitsOf(_)
BitsOf(n) == IF n = 0 THEN 0 ELSE 1 + BitsOf(n \div 2)
BitLen(a) == IF a = <<>> THEN 0 ELSE 15 * (Len(a) - 1) + BitsOf(a[Len(a)])
RECURSIVE Norm(_)
Norm(a) == IF a # <<>> /\ a[Len(a)] = 0 THEN Norm(SubSeq(a, 1, Len(a) - 1)) ELSE a

\* a * k + carry, for a small k
RECURSIVE BigMulSmall(_, _, _)
BigMulSmall(a, k, carry) ==
  IF a = <<>> THEN (IF carry = 0 THEN <<>>
                    ELSE <<carry % Base>> \o BigMulSmall(<<>>, k, carry \div Base))
  ELSE Only({ <<v % Base>> \o BigMulSmall(Tail(a), k, v \div Base)
              : v \in {Head(a) * k + carry} })
\* a + b + carry
RECURSIVE BigAdd(_, _, _)
BigAdd(a, b, carry) ==
  IF a = <<>> /\ b = <<>> THEN (IF carry = 0 THEN <<>> ELSE <<carry>>)
  ELSE Only({ <<v % Base>> \o BigAdd(IF a = <<>> THEN <<>> ELSE Tail(a),
                                      IF b = <<>> THEN <<>> ELSE Tail(b), v \div Base)
              : v \in {(IF a = <<>> THEN 0 ELSE Head(a))
                        + (IF b = <<>> THEN 0 ELSE Head(b)) + carry} })
\* the quotient and the remainder of (r * Base^Len(a) + a) by a small k
RECURSIVE BigDivSmall(_, _, _)
BigDivSmall(a, k, r) ==
  IF a = <<>> THEN [q |-> <<>>, r |-> r]
  ELSE Only({ Only({ [q |-> Append(lower.q, cur \div k), r |-> lower.r]
                     : lower \in {BigDivSmall(SubSeq(a, 1, Len(a) - 1), k, cur % k)} })
              : cur \in {r * Base + a[Len(a)]} })

\* the nearest number of at most 53 significant bits, ties to the even one
RoundToDouble(a) ==
  IF BitLen(a) <= 53 THEN a
  ELSE Only({ Only({ BigMulSmall(
                       IF h.r > Pow2(d - 1) \/ (h.r = Pow2(d - 1) /\ h.q[1] % 2 = 1)
                       THEN BigAdd(Norm(h.q), <<1>>, 0) ELSE Norm(h.q),
                       Pow2(d), 0)
                     : h \in {BigDivSmall(a, Pow2(d), 0)} })
              : d \in {BitLen(a) - 53} })

\* 2^55 units make 1; the double nearest to 0.2 is 7205759403792794 units and
\* the double nearest to 0.8 four times as many
DoubleOne == <<0, 0, 0, 1024>>
DoubleOf(n) == BigMulSmall(DoubleOne, n, 0)
Double020 == <<6554, 13107, 26214, 204>>
Double080 == BigMulSmall(Double020, 4, 0)
\* the product of a whole number n and a double, and the sum of two doubles
DoubleTimes(n, x) == RoundToDouble(BigMulSmall(x, n, 0))
DoublePlus(x, y) == RoundToDouble(BigAdd(x, y, 0))

\* lines 35-36 for a whole number of dollars
Split(epochPnL) ==
  [distributableAmount |-> DoubleTimes(epochPnL, Double080),
   retained |-> DoubleTimes(epochPnL, Double020)]

\* getAppleHolders(): the call throws, or resolves to a snapshot
Holder(address, share) == [address |-> address, share |-> share]
Snapshot(holders) == [totalHolders |-> Len(holders), holders |-> holders]

\* part_002 lines 112-121: the share of each eligible holder, its balance in
\* ten-thousandths of the eligible supply, rounded down; the holders come
\* largest balance first
RECURSIVE TotalOf(_)
TotalOf(eligible) == IF eligible = <<>> THEN 0 ELSE Head(eligible).balance + TotalOf(Tail(eligible))
ShareOf(held, totalEligibleSupply) ==
  IF totalEligibleSupply > 0
  THEN ((held * 10000) \div totalEligibleSupply) * (ONE \div 10000)
  ELSE 0
HoldersOf(eligible) ==
  [k \in 1..Len(eligible) |-> Holder(eligible[k].address,
                                      ShareOf(eligible[k].balance, TotalOf(eligible)))]
Eligible(address, held) == [address |-> address, balance |-> held]
SnapshotOutcomes ==
  { Failed, Ok(Snapshot(<<>>)),
    Ok(Snapshot(HoldersOf(<<Eligible("0xa", 500), Eligible("0xb", 500)>>))),
    Ok(Snapshot(HoldersOf(<<Eligible("0xa", 29999), Eligible("0xb", 1)>>))),
    Ok(Snapshot(HoldersOf(<<Eligible("0xa", 7), Eligible("0xb", 7), Eligible("0xc", 7)>>))) }

\* lines 49-55: the amount of one holder in USDC base units (6 decimals)
RecipientAmount(distributableAmount, share) == FMul(distributableAmount, share) \div 10
RECURSIVE Recipients(_, _)
Recipients(holders, distributableAmount) ==
  IF holders = <<>> THEN <<>>
  ELSE (IF RecipientAmount(distributableAmount, Head(holders).share) > 0
        THEN <<[address |-> Head(holders).address,
                amount |-> RecipientAmount(distributableAmount, Head(holders).share)]>>
        ELSE <<>>) \o Recipients(Tail(holders), distributableAmount)

\* azuraWallet.distributeUSDC (part_001:32-34) throws whatever it is given;
\* the route's catch answers 500 with the message of the error
distributeUSDC(recipients) ==
  Response(500, NoSummary, <<>>, "Wallet operations require full platform deployment")

\* lines 15-32: the guard, the body and the test of epochPnL
DistributeStart(r) ==
  /\ pc[r] = "distribute"
  /\ IF ~AdminAuthorized(request[r].adminSecret, request[r].envSecret)
     THEN /\ response' = Set(response, r, Response(401, NoSummary, <<>>, "Unauthorized"))
          /\ pc' = Set(pc, r, "done")
     ELSE IF ~request[r].body.json
     THEN /\ response' = Set(response, r, Response(500, NoSummary, <<>>, "Distribution failed"))
          /\ pc' = Set(pc, r, "done")
     ELSE LET epochPnL == parseFloatLead(request[r].body.epochPnL)
          IN IF ~epochPnL.num \/ epochPnL.v <= 0
             THEN /\ response' = Set(response, r,
                                      Response(200, NoSummary, <<>>, "No profit to distribute"))
                  /\ pc' = Set(pc, r, "done")
             ELSE /\ pc' = Set(pc, r, "snapshot")
                  /\ UNCHANGED response
  /\ UNCHANGED <<apple, derived, cdf, now, request, feed, pending, pricesCache, marketsCache, store, err, markets,
                 signals, balance, totalExposure, idx, positions, results, scanLogs,
                 sizeLogs, execLogs, monitorLogs, allLogs, calls>>

\* lines 38-46: the holder snapshot settles
DistributeSnapshot(r) ==
  /\ pc[r] = "snapshot"
  /\ \E snapshot \in SnapshotOutcomes :
       /\ Called(r, <<"getAppleHolders", snapshot>>)
       /\ IF ~snapshot.ok
          THEN /\ response' = Set(response, r,
                                   Response(500, NoSummary, <<>>, "Distribution failed"))
               /\ pc' = Set(pc, r, "done")
          ELSE IF snapshot.value.totalHolders = 0
          THEN /\ response' = Set(response, r,
                                   Response(200, NoSummary, <<>>, "No eligible APPLE holders found"))
               /\ pc' = Set(pc, r, "done")
          ELSE /\ pc' = Set(pc, r, "transfer")
               /\ UNCHANGED response
  /\ UNCHANGED <<apple, derived, cdf, now, request, feed, pending, pricesCache, marketsCache, store, err, markets,
                 signals, balance, totalExposure, idx, positions, results, scanLogs,
                 sizeLogs, execLogs, monitorLogs, allLogs>>

\* lines 34-36 and 48-76: the amounts, the batch transfer and the answer
DistributeTransfer(r) ==
  /\ pc[r] = "transfer"
  /\ LET epochPnL == parseFloatLead(request[r].body.epochPnL).v
         distributableAmount == FMul(epochPnL, 8 * (ONE \div 10))
         snapshot == calls[r][Len(calls[r])][2].value
         recipients == Recipients(snapshot.holders, distributableAmount)
     IN /\ Called(r, <<"distributeUSDC", recipients>>)
        /\ response' = Set(response, r, distributeUSDC(recipients))
  /\ pc' = Set(pc, r, "done")
  /\ UNCHANGED <<apple, derived, cdf, now, request, feed, pending, pricesCache, marketsCache, store, err, markets,
                 signals, balance, totalExposure, idx, positions, results, scanLogs,
                 sizeLogs, execLogs, monitorLogs, allLogs>>

\* execution-log-store getExecutionLogs(), which GET /api/treasury/execution-logs
\* answers with: the store as it stands, read in one step
getExecutionLogs == [logs |-> store.logs, positions |-> store.positions]

(***************************************************************************)
(* Specifications.                                                         *)
(***************************************************************************)
\* a freshly started process: empty caches, empty log store, no request yet
\* the page has derived nothing
NotDerived == [sigma |-> 0, mkt_price |-> 0, model_fair |-> 0, divergence |-> 0, signal |-> "none"]

(***************************************************************************)
(* getAppleHolders (part_002 lines 46-130): the Transfer logs of the token *)
(* are read in chunks of CHUNK_SIZE blocks from startBlock to currentBlock,*)
(* folded into a balance map, and the map is filtered into the snapshot.   *)
(***************************************************************************)
\* no call of getAppleHolders is under way
NotCalled == [pc |-> "idle", chain |-> <<>>, startBlock |-> 0, currentBlock |-> 0,
              from |-> 0, balances |-> <<>>, snapshot |-> Snapshot(<<>>)]

\* line 68
CHUNK_SIZE == 10000

\* lines 14-17 and 59-64: the zero address, the token contract and the
\* configured Uniswap pool, all in lower case
ZeroAddress == "0x0"
EXCLUDED_ADDRESSES == {ZeroAddress, "0xtoken", "0xpool"}

\* one Transfer event of the token: the block it is in, sender, receiver, value
Transfer(block, fromAddr, toAddr, value) ==
  [block |-> block, fromAddr |-> fromAddr, toAddr |-> toAddr, value |-> value]

\* the histories of the token the provider may serve, oldest event first
Chains ==
  { << Transfer(5, ZeroAddress, "0xa", 100), Transfer(10000, "0xa", "0xb", 30),
       Transfer(19999, "0xa", "0xpool", 20), Transfer(20000, "0xb", "0xa", 30),
       Transfer(25000, "0xa", ZeroAddress, 10), Transfer(25001, ZeroAddress, "0xc", 7) >>,
    << Transfer(0, ZeroAddress, "0xtoken", 50), Transfer(9999, "0xtoken", "0xa", 50),
       Transfer(10000, "0xa", "0xb", 50), Transfer(20001, "0xb", "0xc", 20),
       Transfer(20004, ZeroAddress, "0xa", 20), Transfer(30004, "0xc", "0xa", 5) >> }

\* line 71: APPLE_DEPLOY_BLOCK; line 50: provider.getBlockNumber()
StartBlocks == {0, 5, 6, 10000, 10001}
CurrentBlocks == {4, 9999, 10000, 19999, 20000, 25000, 30004}

\* lines 76-81: provider.getLogs, both ends of the range included
getLogs(chain, fromBlock, toBlock) ==
  SelectSeq(chain, LAMBDA log : fromBlock <= log.block /\ log.block <= toBlock)

\* lines 88, 94: balances.get(address) || 0n
RECURSIVE BalanceOf(_, _)
BalanceOf(balances, address) ==
  IF balances = <<>> THEN 0
  ELSE IF Head(balances).address = address THEN Head(balances).balance
  ELSE BalanceOf(Tail(balances), address)

\* lines 91, 95: balances.set(address, held); a Map keeps a key where it
\* was first inserted
SetBalance(balances, address, held) ==
  IF \E k \in 1..Len(balances) : balances[k].address = address
  THEN [k \in 1..Len(balances) |->
          IF balances[k].address = address THEN Eligible(address, held) ELSE balances[k]]
  ELSE Append(balances, Eligible(address, held))

\* lines 83-96: one log debits its sender, unless it is a mint, and credits
\* its receiver
ApplyLog(balances, log) ==
  Only({ SetBalance(debited, log.toAddr, BalanceOf(debited, log.toAddr) + log.value)
         : debited \in {IF log.fromAddr # ZeroAddress
                        THEN SetBalance(balances, log.fromAddr,
                                        BalanceOf(balances, log.fromAddr) - log.value)
                        ELSE balances} })
RECURSIVE ApplyLogs(_, _)
ApplyLogs(balances, logs) ==
  IF logs = <<>> THEN balances ELSE ApplyLogs(ApplyLog(balances, Head(logs)), Tail(logs))

\* line 74
ChunkEnd_inclusive(from, currentBlock) == Min(from + CHUNK_SIZE, currentBlock)
ChunkEnd(from, currentBlock) == Min(from + CHUNK_SIZE - 1, currentBlock)

\* lines 100-110
EligibleHolders(balances) ==
  SelectSeq(balances, LAMBDA e : e.balance > 0 /\ e.address \notin EXCLUDED_ADDRESSES)

\* line 121: largest balance first, equal balances in the order they had
RECURSIVE InsertByBalance(_, _)
InsertByBalance(h, sorted) ==
  IF sorted = <<>> THEN <<h>>
  ELSE IF h.balance > Head(sorted).balance THEN <<h>> \o sorted
  ELSE <<Head(sorted)>> \o InsertByBalance(h, Tail(sorted))
RECURSIVE SortByBalance(_)
SortByBalance(eligible) ==
  IF eligible = <<>> THEN <<>>
  ELSE InsertByBalance(eligible[Len(eligible)],
                       SortByBalance(SubSeq(eligible, 1, Len(eligible) - 1)))

\* lines 73-97: one turn of the chunk loop; the provider answers or fails
ScanChunk ==
  /\ apple.pc = "loop"
  /\ apple.from <= apple.currentBlock
  /\ \E to \in {ChunkEnd(apple.from, apple.currentBlock)} :
       /\ calls' = [calls EXCEPT ![1] =
                      Append(@, <<"getLogs", [fromBlock |-> apple.from, toBlock |-> to]>>)]
       /\ \/ apple' = [apple EXCEPT
                         !.balances = ApplyLogs(@, getLogs(apple.chain, apple.from, to)),
                         !.from = @ + CHUNK_SIZE]
          \/ apple' = [apple EXCEPT !.pc = "threw"]
  /\ UNCHANGED <<derived, cdf, now, request, feed, pending, pricesCache, marketsCache, store,
                 pc, err, markets, signals, balance, totalExposure, idx, positions, results,
                 scanLogs, sizeLogs, execLogs, monitorLogs, allLogs, response>>

\* lines 73 and 100-129: the loop is over, the snapshot is built and returned
ReturnSnapshot ==
  /\ apple.pc = "loop"
  /\ apple.from > apple.currentBlock
  /\ apple' = [apple EXCEPT
                 !.pc = "done",
                 !.snapshot = Snapshot(HoldersOf(SortByBalance(EligibleHolders(apple.balances))))]
  /\ UNCHANGED <<derived, cdf, now, request, feed, pending, pricesCache, marketsCache, store,
                 pc, err, markets, signals, balance, totalExposure, idx, positions, results,
                 scanLogs, sizeLogs, execLogs, monitorLogs, allLogs, response, calls>>

\* no call of normalCDF under way
NoCall == [x |-> 0, returned |-> FALSE, y |-> 0]

Fresh ==
  /\ pricesCache = NoCache
  /\ marketsCache = NoCache
  /\ store = [logs |-> <<>>, positions |-> <<>>]
  /\ pc = [r \in Reqs |-> "idle"]
  /\ err = [r \in Reqs |-> NoErr]
  /\ markets = [r \in Reqs |-> <<>>]
  /\ signals = [r \in Reqs |-> <<>>]
  /\ balance = [r \in Reqs |-> 0]
  /\ totalExposure = [r \in Reqs |-> 0]
  /\ idx = [r \in Reqs |-> 1]
  /\ positions = [r \in Reqs |-> <<>>]
  /\ results = [r \in Reqs |-> <<>>]
  /\ scanLogs = [r \in Reqs |-> <<>>]
  /\ sizeLogs = [r \in Reqs |-> <<>>]
  /\ execLogs = [r \in Reqs |-> <<>>]
  /\ monitorLogs = [r \in Reqs |-> <<>>]
  /\ allLogs = [r \in Reqs |-> <<>>]
  /\ response = [r \in Reqs |-> NoResponse]
  /\ calls = [r \in Reqs |-> <<>>]
  /\ now = 0
  /\ cdf = NoCall
  /\ derived = NotDerived
  /\ apple = NotCalled

\* one trigger of the route, whatever the upstream services serve
Init ==
  /\ feed \in [markets : CryptoLists, spot : SpotChoices]
  /\ pending = {1}
  /\ \E req \in Requests : request = [r \in Reqs |-> IF r = 1 THEN req ELSE NoRequest]
  /\ Fresh

Next ==
  \E r \in Reqs :
    \/ Trigger(r)
    \/ Scan(r)
    \/ ScanReturn(r)
    \/ SizeBalance(r)
    \/ SizeOrders(r)
    \/ SizeSignal(r)
    \/ SizeReturn(r)
    \/ ExecOrder(r)
    \/ ExecReturn(r)
    \/ Monitor(r)
    \/ MonitorReturn(r)
    \/ Respond(r)

Spec == Init /\ [][Next]_vars

\* scanForEdge called on its own, the upstream serving markets that share a
\* yes price and differ in the coin they name
TwinUniverse ==
  { Market("t1", {"bitcoin"},         4000000, 6000000),
    Market("t2", {"eth", "ethereum"}, 4000000, 6000000),
    Market("t3", {},                  4000000, 6000000),
    Market("t4", {"sol", "solana"},   4800000, 5200000),
    Market("t5", {},                  4800000, 5200000) }

InitScan ==
  /\ feed \in [markets : ListsUpTo(TwinUniverse, PER_CATEGORY), spot : SpotChoices]
  /\ pending = {}
  /\ request = [r \in Reqs |-> NoRequest]
  /\ pricesCache = NoCache
  /\ marketsCache = NoCache
  /\ store = [logs |-> <<>>, positions |-> <<>>]
  /\ pc = [r \in Reqs |-> IF r = 1 THEN "scan" ELSE "idle"]
  /\ err = [r \in Reqs |-> NoErr]
  /\ markets = [r \in Reqs |-> <<>>]
  /\ signals = [r \in Reqs |-> <<>>]
  /\ balance = [r \in Reqs |-> 0]
  /\ totalExposure = [r \in Reqs |-> 0]
  /\ idx = [r \in Reqs |-> 1]
  /\ positions = [r \in Reqs |-> <<>>]
  /\ results = [r \in Reqs |-> <<>>]
  /\ scanLogs = [r \in Reqs |-> <<>>]
  /\ sizeLogs = [r \in Reqs |-> <<>>]
  /\ execLogs = [r \in Reqs |-> <<>>]
  /\ monitorLogs = [r \in Reqs |-> <<>>]
  /\ allLogs = [r \in Reqs |-> <<>>]
  /\ response = [r \in Reqs |-> NoResponse]
  /\ calls = [r \in Reqs |-> <<>>]
  /\ now = 0
  /\ cdf = NoCall
  /\ derived = NotDerived
  /\ apple = NotCalled

NextScan == \E r \in Reqs : Scan(r) \/ ScanReturn(r)

SpecScan == InitScan /\ [][NextScan]_vars

\* sizePositions called on its own, with any signal list
InitSize ==
  /\ feed = [markets |-> <<>>, spot |-> 0]
  /\ pending = {}
  /\ pricesCache = NoCache
  /\ marketsCache = NoCache
  /\ store = [logs |-> <<>>, positions |-> <<>>]
  /\ pc = [r \in Reqs |-> IF r = 1 THEN "size_balance" ELSE "idle"]
  /\ err = [r \in Reqs |-> NoErr]
  /\ markets = [r \in Reqs |-> <<>>]
  /\ \E l \in SignalLists : signals = [r \in Reqs |-> IF r = 1 THEN l ELSE <<>>]
  /\ balance = [r \in Reqs |-> 0]
  /\ totalExposure = [r \in Reqs |-> 0]
  /\ idx = [r \in Reqs |-> 1]
  /\ positions = [r \in Reqs |-> <<>>]
  /\ results = [r \in Reqs |-> <<>>]
  /\ scanLogs = [r \in Reqs |-> <<>>]
  /\ sizeLogs = [r \in Reqs |-> <<>>]
  /\ execLogs = [r \in Reqs |-> <<>>]
  /\ monitorLogs = [r \in Reqs |-> <<>>]
  /\ allLogs = [r \in Reqs |-> <<>>]
  /\ response = [r \in Reqs |-> NoResponse]
  /\ calls = [r \in Reqs |-> <<>>]
  /\ request = [r \in Reqs |-> NoRequest]
  /\ now = 0
  /\ cdf = NoCall
  /\ derived = NotDerived
  /\ apple = NotCalled

NextSize == \E r \in Reqs : SizeBalance(r) \/ SizeOrders(r) \/ SizeSignal(r)

SpecSize == InitSize /\ [][NextSize]_vars

\* sizePositions called on its own at a venue that may list the malformed order
NextMalformed ==
  \E r \in Reqs : SizeBalance(r) \/ SizeOrdersMalformed(r) \/ SizeSignal(r)

SpecMalformed == InitSize /\ [][NextMalformed]_vars

\* two triggers of the route, the upstream services serving one crypto market
ConcFeeds ==
  [markets : {l \in CryptoLists : Len(l) = 1 /\ l[1].id \in {"m1", "m3"}}, spot : {70000}]

ConcRequests ==
  {req \in Requests : req.cronSecret = "s3cret" /\ Len(req.authorization) = 2
                       /\ req.authorization[2] \in {"s3cret", "wrong"}}

InitConc ==
  /\ feed \in ConcFeeds
  /\ pending = Reqs
  /\ request \in [Reqs -> ConcRequests]
  /\ Fresh

\* GET /api/treasury/prices, prices/route.ts lines 7-15: one call of
\* fetchPrices, answered with the prices or with 502
GetPrices(r) ==
  /\ pc[r] = "idle" /\ r \notin pending
  /\ Len(calls[r]) < MaxFetches
  /\ \E po \in FetchOutcomes :
       /\ FetchPossible(po, pricesCache, PRICES_TTL)
       /\ pricesCache' = FetchCache(po, pricesCache, CoinPrices(feed.spot))
       /\ Called(r, <<"fetchPrices", FetchAnswer(po, pricesCache, CoinPrices(feed.spot))>>)
       /\ response' = Set(response, r,
             IF po = "throw"
             THEN Response(502, NoSummary, <<>>, "Failed to fetch prices")
             ELSE Response(200, NoSummary,
                           FetchResult(po, pricesCache, CoinPrices(feed.spot)), NoErr))
  /\ UNCHANGED <<apple, derived, cdf, now, request, feed, pending, marketsCache, store, pc, err, markets, signals,
                 balance, totalExposure, idx, positions, results, scanLogs, sizeLogs,
                 execLogs, monitorLogs, allLogs>>

\* the moments at which a later request can arrive, chosen around the two
\* cache lifetimes, and what the price service quotes by then
Times == {0, 29999, 30000, 60000}
LaterSpots == {70000, 71000}

\* time passes between two requests and the price service moves on; before
\* the first cache entry exists the passing of time changes nothing
Tick ==
  /\ pricesCache.set \/ marketsCache.set
  /\ \E t \in Times : t > now /\ now' = t
  /\ \E spot \in LaterSpots : feed' = [feed EXCEPT !.spot = spot]
  /\ UNCHANGED <<apple, derived, cdf, request, pending, pricesCache, marketsCache, store, pc, err, markets,
                 signals, balance, totalExposure, idx, positions, results, scanLogs,
                 sizeLogs, execLogs, monitorLogs, allLogs, response, calls>>

SpecConc == InitConc /\ [][Next]_vars

\* one request to the distribute route
InitDistribute ==
  /\ feed = [markets |-> <<>>, spot |-> 0]
  /\ pending = {}
  /\ \E req \in DistributeRequests :
        request = [r \in Reqs |-> IF r = 1 THEN req ELSE NoRequest]
  /\ pricesCache = NoCache
  /\ marketsCache = NoCache
  /\ store = [logs |-> <<>>, positions |-> <<>>]
  /\ pc = [r \in Reqs |-> IF r = 1 THEN "distribute" ELSE "idle"]
  /\ err = [r \in Reqs |-> NoErr]
  /\ markets = [r \in Reqs |-> <<>>]
  /\ signals = [r \in Reqs |-> <<>>]
  /\ balance = [r \in Reqs |-> 0]
  /\ totalExposure = [r \in Reqs |-> 0]
  /\ idx = [r \in Reqs |-> 1]
  /\ positions = [r \in Reqs |-> <<>>]
  /\ results = [r \in Reqs |-> <<>>]
  /\ scanLogs = [r \in Reqs |-> <<>>]
  /\ sizeLogs = [r \in Reqs |-> <<>>]
  /\ execLogs = [r \in Reqs |-> <<>>]
  /\ monitorLogs = [r \in Reqs |-> <<>>]
  /\ allLogs = [r \in Reqs |-> <<>>]
  /\ response = [r \in Reqs |-> NoResponse]
  /\ calls = [r \in Reqs |-> <<>>]
  /\ now = 0
  /\ cdf = NoCall
  /\ derived = NotDerived
  /\ apple = NotCalled

NextDistribute ==
  \E r \in Reqs : DistributeStart(r) \/ DistributeSnapshot(r) \/ DistributeTransfer(r)

SpecDistribute == InitDistribute /\ [][NextDistribute]_vars

(***************************************************************************)
(* The treasury page (part_006): the derived values, lines 401-443.        *)
(***************************************************************************)
\* line 408: SIGMA with its jitter of at most 0.005
Sigmas == { SIGMA + j * (ONE \div 400) : j \in -2 .. 2 }

\* lines 418-424 and 438: d2, N(d2), C_bin and model_fair for a jittered sigma
PageFair(sigma) ==
  Only({ FMul(FExp(-FMul(R_FREE, T_EXP)), normalCDF(d2)) * 100
         : d2 \in {FDiv(FMul(R_FREE - FMul(FMul(ONE \div 2, sigma), sigma), T_EXP),
                        FMul(sigma, FSqrt(T_EXP)))} })

\* line 56 and line 439: the fallback, or the yes price of the BTC market as a
\* percentage; the prices here lie at and next to three points from a fair value
FALLBACK_MKT_PRICE == 5378 * (ONE \div 100)
MktPrices ==
  {FALLBACK_MKT_PRICE}
  \cup { PageFair(sigma) + sgn * EDGE_THRESHOLD + d * 100 :
           sigma \in Sigmas, sgn \in {-1, 1}, d \in {-1, 0, 1} }

\* line 443
PageSignal(divergence) == IF Abs(divergence) > EDGE_THRESHOLD THEN "TRADE" ELSE "SKIP"

\* lines 401-443: one recomputation of the derived values
Derive ==
  /\ derived.signal = "none"
  /\ derived' = Only({ [derived EXCEPT !.model_fair = fair,
                                        !.divergence = fair - derived.mkt_price,
                                        !.signal = PageSignal(fair - derived.mkt_price)]
                       : fair \in {PageFair(derived.sigma)} })
  /\ UNCHANGED <<apple, cdf, now, request, feed, pending, pricesCache, marketsCache, store, pc, err,
                 markets, signals, balance, totalExposure, idx, positions, results,
                 scanLogs, sizeLogs, execLogs, monitorLogs, allLogs, response, calls>>

InitPage ==
  /\ feed = [markets |-> <<>>, spot |-> 0]
  /\ pending = {}
  /\ request = [r \in Reqs |-> NoRequest]
  /\ pricesCache = NoCache
  /\ marketsCache = NoCache
  /\ store = [logs |-> <<>>, positions |-> <<>>]
  /\ pc = [r \in Reqs |-> "idle"]
  /\ err = [r \in Reqs |-> NoErr]
  /\ markets = [r \in Reqs |-> <<>>]
  /\ signals = [r \in Reqs |-> <<>>]
  /\ balance = [r \in Reqs |-> 0]
  /\ totalExposure = [r \in Reqs |-> 0]
  /\ idx = [r \in Reqs |-> 1]
  /\ positions = [r \in Reqs |-> <<>>]
  /\ results = [r \in Reqs |-> <<>>]
  /\ scanLogs = [r \in Reqs |-> <<>>]
  /\ sizeLogs = [r \in Reqs |-> <<>>]
  /\ execLogs = [r \in Reqs |-> <<>>]
  /\ monitorLogs = [r \in Reqs |-> <<>>]
  /\ allLogs = [r \in Reqs |-> <<>>]
  /\ response = [r \in Reqs |-> NoResponse]
  /\ calls = [r \in Reqs |-> <<>>]
  /\ now = 0
  /\ cdf = NoCall
  /\ apple = NotCalled
  /\ \E sigma \in Sigmas, mkt \in MktPrices :
        derived = [NotDerived EXCEPT !.sigma = sigma, !.mkt_price = mkt]

NextPage == Derive

SpecPage == InitPage /\ [][NextPage]_vars

\* getAppleHolders called once, on a history and a block range
InitHolders ==
  /\ feed = [markets |-> <<>>, spot |-> 0]
  /\ pending = {}
  /\ request = [r \in Reqs |-> NoRequest]
  /\ pricesCache = NoCache
  /\ marketsCache = NoCache
  /\ store = [logs |-> <<>>, positions |-> <<>>]
  /\ pc = [r \in Reqs |-> "idle"]
  /\ err = [r \in Reqs |-> NoErr]
  /\ markets = [r \in Reqs |-> <<>>]
  /\ signals = [r \in Reqs |-> <<>>]
  /\ balance = [r \in Reqs |-> 0]
  /\ totalExposure = [r \in Reqs |-> 0]
  /\ idx = [r \in Reqs |-> 1]
  /\ positions = [r \in Reqs |-> <<>>]
  /\ results = [r \in Reqs |-> <<>>]
  /\ scanLogs = [r \in Reqs |-> <<>>]
  /\ sizeLogs = [r \in Reqs |-> <<>>]
  /\ execLogs = [r \in Reqs |-> <<>>]
  /\ monitorLogs = [r \in Reqs |-> <<>>]
  /\ allLogs = [r \in Reqs |-> <<>>]
  /\ response = [r \in Reqs |-> NoResponse]
  /\ calls = [r \in Reqs |-> <<>>]
  /\ now = 0
  /\ cdf = NoCall
  /\ derived = NotDerived
  /\ \E chain \in Chains, startBlock \in StartBlocks, currentBlock \in CurrentBlocks :
        apple = [NotCalled EXCEPT !.pc = "loop", !.chain = chain, !.startBlock = startBlock,
                                  !.currentBlock = currentBlock, !.from = startBlock]

NextHolders == ScanChunk \/ ReturnSnapshot

\* the loop body only awaits the provider, which answers or fails: every
\* turn that can be taken is taken
SpecHolders == InitHolders /\ [][NextHolders]_vars /\ WF_vars(NextHolders)

\* normalCDF called once, on an argument of the grid -6, -5.95 .. 6
GridSteps == 120
GridStep == ONE \div 20
Grid == { i * GridStep : i \in -GridSteps .. GridSteps }

Evaluate ==
  /\ ~cdf.returned
  /\ cdf' = [cdf EXCEPT !.returned = TRUE, !.y = normalCDF(cdf.x)]
  /\ UNCHANGED <<apple, derived, now, request, feed, pending, pricesCache, marketsCache, store, pc, err,
                 markets, signals, balance, totalExposure, idx, positions, results,
                 scanLogs, sizeLogs, execLogs, monitorLogs, allLogs, response, calls>>

InitCDF ==
  /\ feed = [markets |-> <<>>, spot |-> 0]
  /\ pending = {}
  /\ request = [r \in Reqs |-> NoRequest]
  /\ pricesCache = NoCache
  /\ marketsCache = NoCache
  /\ store = [logs |-> <<>>, positions |-> <<>>]
  /\ pc = [r \in Reqs |-> "idle"]
  /\ err = [r \in Reqs |-> NoErr]
  /\ markets = [r \in Reqs |-> <<>>]
  /\ signals = [r \in Reqs |-> <<>>]
  /\ balance = [r \in Reqs |-> 0]
  /\ totalExposure = [r \in Reqs |-> 0]
  /\ idx = [r \in Reqs |-> 1]
  /\ positions = [r \in Reqs |-> <<>>]
  /\ results = [r \in Reqs |-> <<>>]
  /\ scanLogs = [r \in Reqs |-> <<>>]
  /\ sizeLogs = [r \in Reqs |-> <<>>]
  /\ execLogs = [r \in Reqs |-> <<>>]
  /\ monitorLogs = [r \in Reqs |-> <<>>]
  /\ allLogs = [r \in Reqs |-> <<>>]
  /\ response = [r \in Reqs |-> NoResponse]
  /\ calls = [r \in Reqs |-> <<>>]
  /\ now = 0
  /\ \E x \in Grid : cdf = [x |-> x, returned |-> FALSE, y |-> 0]
  /\ derived = NotDerived
  /\ apple = NotCalled

NextCDF == Evaluate

SpecCDF == InitCDF /\ [][NextCDF]_vars

\* the prices route called up to MaxFetches times while time passes
InitPrices ==
  /\ feed \in [markets : {<<>>}, spot : SpotChoices]
  /\ pending = {}
  /\ request = [r \in Reqs |-> NoRequest]
  /\ Fresh

NextPrices == GetPrices(1) \/ Tick

SpecPrices == InitPrices /\ [][NextPrices]_vars

\* executeTrades called on its own with a batch of positions that were each
\* sized against a balance of 100
Batches ==
  { [k \in 1..n |-> SizedPosition(signal, 100 * ONE)] :
      signal \in {SignalBelowCap, SignalAtCap, SignalOffTick}, n \in 1..MaxBatch }

InitExec ==
  /\ feed = [markets |-> <<>>, spot |-> 0]
  /\ pending = {}
  /\ pricesCache = NoCache
  /\ marketsCache = NoCache
  /\ store = [logs |-> <<>>, positions |-> <<>>]
  /\ pc = [r \in Reqs |-> IF r = 1 THEN "execute" ELSE "idle"]
  /\ err = [r \in Reqs |-> NoErr]
  /\ markets = [r \in Reqs |-> <<>>]
  /\ signals = [r \in Reqs |-> <<>>]
  /\ balance = [r \in Reqs |-> IF r = 1 THEN 100 * ONE ELSE 0]
  /\ totalExposure = [r \in Reqs |-> 0]
  /\ idx = [r \in Reqs |-> 1]
  /\ \E batch \in Batches : positions = [r \in Reqs |-> IF r = 1 THEN batch ELSE <<>>]
  /\ results = [r \in Reqs |-> <<>>]
  /\ scanLogs = [r \in Reqs |-> <<>>]
  /\ sizeLogs = [r \in Reqs |-> <<>>]
  /\ execLogs = [r \in Reqs |-> <<>>]
  /\ monitorLogs = [r \in Reqs |-> <<>>]
  /\ allLogs = [r \in Reqs |-> <<>>]
  /\ response = [r \in Reqs |-> NoResponse]
  /\ calls = [r \in Reqs |-> <<>>]
  /\ request = [r \in Reqs |-> NoRequest]
  /\ now = 0
  /\ cdf = NoCall
  /\ derived = NotDerived
  /\ apple = NotCalled

NextExec == \E r \in Reqs : ExecOrder(r)

SpecExec == InitExec /\ [][NextExec]_vars

(***************************************************************************)
(* Properties of sizePositions.                                            *)
(***************************************************************************)
RECURSIVE SumSizeUSD(_)
SumSizeUSD(ps) == IF ps = <<>> THEN 0 ELSE Head(ps).sizeUSD + SumSizeUSD(Tail(ps))

HaltEntry == Log("HALT", NoAsset, <<"max_exposure">>)
Halted(r) == sizeLogs[r] # <<>> /\ sizeLogs[r][Len(sizeLogs[r])] = HaltEntry

\* C1: whatever the signal list and the positive balance, every position
\* sizePositions builds has sizeUSD at most 5 % of the balance.
C1_PerPositionCap ==
  \A r \in Reqs : \A i \in 1..Len(positions[r]) :
    positions[r][i].sizeUSD <= balance[r] \div 20

\* C1 witness: sizePositions has returned a position cut to exactly 5 % of
\* the balance.
C1_Witness ==
  \E r \in Reqs :
    /\ pc[r] = "size_return"
    /\ balance[r] > 0
    /\ \E i \in 1..Len(positions[r]) :
         /\ positions[r][i].sizeUSD = balance[r] \div 20
         /\ positions[r][i].kellyFraction = MAX_POSITION_PCT

\* C2: the sizeUSD of the positions of one sizing pass add up to at most
\* 40 % of the balance.
C2_AggregateCap ==
  \A r \in Reqs : SumSizeUSD(positions[r]) <= 2 * (balance[r] \div 5)

\* C3, as stated: whenever sizePositions, given at least one signal, has
\* returned with the running exposure at or above 40 % of the balance, it
\* has logged a HALT entry.
C3_HaltOnceCapReached ==
  \A r \in Reqs :
    (pc[r] = "size_return" /\ balance[r] > 0 /\ signals[r] # <<>>
       /\ totalExposure[r] >= 2 * (balance[r] \div 5))
    => \E k \in 1..Len(sizeLogs[r]) : sizeLogs[r][k] = HaltEntry

\* C3, amended: whenever the loop comes to a signal while the running
\* exposure is at or above 40 % of the balance, that pass appends a HALT
\* entry, builds no position, leaves that signal and every later one
\* unexamined and ends the loop.
C3_HaltStopsSizing ==
  [][\A r \in Reqs :
       (pc[r] = "size_loop" /\ totalExposure[r] >= 2 * (balance[r] \div 5)
          /\ <<pc[r], idx[r], sizeLogs[r], positions[r]>>'
               # <<pc[r], idx[r], sizeLogs[r], positions[r]>>)
       => /\ sizeLogs'[r] = Append(sizeLogs[r], HaltEntry)
          /\ positions'[r] = positions[r]
          /\ totalExposure'[r] = totalExposure[r]
          /\ idx'[r] = idx[r]
          /\ pc'[r] = "size_return"]_vars

\* C3 witness: the positions sized in this pass brought the exposure to the
\* limit while signals remained, and the pass halted.
C3_Witness ==
  \E r \in Reqs :
    /\ pc[r] = "size_return"
    /\ Halted(r)
    /\ Len(positions[r]) > 0
    /\ idx[r] <= Len(signals[r])
    /\ totalExposure[r] >= 2 * (balance[r] \div 5)

\* C8: if the balance lookup fails, sizePositions returns no position and
\* exactly one ERROR entry; if the balance is unparseable or not positive, it
\* returns no position and exactly one HALT entry; either way it returns at
\* once, without an open-order lookup, and raises nothing.
C8_BalanceProblem ==
  \A r \in Reqs : \A k \in 1..Len(calls[r]) :
    calls[r][k][1] = "getClobBalance" =>
      LET outcome == calls[r][k][2]
          returnedAtOnce ==
            /\ pc[r] \notin {"size_orders", "size_loop"}
            /\ positions[r] = <<>>
            /\ err[r] = NoErr
            /\ \A j \in 1..Len(calls[r]) : calls[r][j][1] # "getOpenOrders"
      IN /\ ~outcome.ok =>
              /\ returnedAtOnce
              /\ sizeLogs[r] = <<Log("ERROR", NoAsset, <<"balance_failed">>)>>
         /\ (outcome.ok /\ (~outcome.value[1].num \/ outcome.value[1].v <= 0)) =>
              /\ returnedAtOnce
              /\ sizeLogs[r] = <<Log("HALT", NoAsset, <<"zero_balance">>)>>

\* C8 witness: sizePositions has returned on a negative balance.
C8_Witness ==
  \E r \in Reqs :
    /\ pc[r] = "size_return"
    /\ signals[r] # <<>>
    /\ \E k \in 1..Len(calls[r]) :
         /\ calls[r][k][1] = "getClobBalance"
         /\ calls[r][k][2].ok
         /\ calls[r][k][2].value[1].num
         /\ calls[r][k][2].value[1].v < 0

(***************************************************************************)
(* Properties of the route and of the cycle.                               *)
(***************************************************************************)
\* C4: at most one request is inside runTradingCycle at any time.
C4_AtMostOneCycle == Cardinality({r \in Reqs : InCycle(r)}) <= 1

\* C5: every authorized trigger is answered with the cycle's log and its
\* summary counts, whichever external calls failed.
C5_AlwaysLogAndSummary ==
  \A r \in Reqs :
    (pc[r] = "done" /\ response[r].status # 401) =>
      /\ response[r].status = 200
      /\ response[r].logs = allLogs[r]
      /\ response[r].summary.totalLogs = Len(allLogs[r])

CallNames(r) == [k \in 1..Len(calls[r]) |-> calls[r][k][1]]
ScanCalls == <<"fetchPrices", "fetchCategorizedMarkets">>
Finished(r) == pc[r] \in {"respond", "done"} /\ response[r].status # 401

\* C6: a finished cycle made the external calls of exactly one path: the
\* scan alone when it produced no signal; the scan and the sizing lookups when
\* sizing produced no position; otherwise the scan, the sizing lookups, one
\* placeOrder per position and then the monitor's lookup.  At no time has
\* placeOrder been called without a signal and a position.
C6_ThreePaths ==
  \A r \in Reqs :
    /\ \A k \in 1..Len(calls[r]) :
         calls[r][k][1] = "placeOrder" => signals[r] # <<>> /\ positions[r] # <<>>
    /\ Finished(r) =>
         \/ /\ signals[r] = <<>>
            /\ CallNames(r) = ScanCalls
            /\ sizeLogs[r] = <<>> /\ execLogs[r] = <<>> /\ monitorLogs[r] = <<>>
         \/ /\ signals[r] # <<>>
            /\ positions[r] = <<>>
            /\ CallNames(r) \in {ScanCalls \o <<"getClobBalance">>,
                                 ScanCalls \o <<"getClobBalance", "getOpenOrders">>}
            /\ execLogs[r] = <<>> /\ monitorLogs[r] = <<>>
         \/ /\ signals[r] # <<>>
            /\ positions[r] # <<>>
            /\ CallNames(r) = ScanCalls \o <<"getClobBalance", "getOpenOrders">>
                                \o Repeat("placeOrder", Len(positions[r]))
                                \o <<"getOpenOrders">>

\* C6 witness: a cycle has finished along the longest path.
C6_Witness ==
  \E r \in Reqs :
    /\ pc[r] = "done"
    /\ response[r].status = 200
    /\ Len(positions[r]) >= 2
    /\ CallNames(r)[Len(calls[r])] = "getOpenOrders"
    /\ CallNames(r)[Len(calls[r]) - 1] = "placeOrder"

RECURSIVE PlacedOf(_, _)
PlacedOf(ps, logs) ==
  IF ps = <<>> \/ logs = <<>> THEN <<>>
  ELSE (IF Head(logs).action = "TRADE" THEN <<Head(ps)>> ELSE <<>>)
       \o PlacedOf(Tail(ps), Tail(logs))

ExecutedAll(r) ==
  pc[r] \in {"exec_return", "monitor", "monitor_return", "respond", "done"}
    /\ positions[r] # <<>>

\* C7: once executeTrades has returned, it has called placeOrder once for
\* each of the N positions, in order; it holds one log entry per position,
\* carrying the position's asset, an ERROR for each failed order; results
\* holds exactly the positions whose order was placed, N minus the failures;
\* and nothing was thrown.
C7_PerOrderIsolation ==
  \A r \in Reqs :
    ExecutedAll(r) =>
      LET N == Len(positions[r])
          orders == SelectSeq(calls[r], LAMBDA c : c[1] = "placeOrder")
      IN /\ Len(orders) = N
         /\ \A i \in 1..N : orders[i][2].tokenID = positions[r][i].signal.market.id
         /\ Len(execLogs[r]) = N
         /\ \A i \in 1..N : /\ execLogs[r][i].asset = positions[r][i].signal.asset
                            /\ execLogs[r][i].action \in {"TRADE", "ERROR"}
         /\ Len(results[r]) = N - Count(execLogs[r], "ERROR")
         /\ [j \in 1..Len(results[r]) |-> results[r][j].position]
              = PlacedOf(positions[r], execLogs[r])
         /\ err[r] = NoErr

\* C7 witness: of three positions the first order failed and the later ones
\* were placed.
C7_Witness ==
  \E r \in Reqs :
    /\ pc[r] = "exec_return"
    /\ Len(positions[r]) = 3
    /\ execLogs[r][1].action = "ERROR"
    /\ execLogs[r][2].action = "TRADE"
    /\ execLogs[r][3].action = "TRADE"
    /\ Len(results[r]) = 2

Scanned(r) == pc[r] \notin {"idle", "scan"} /\ err[r] = NoErr /\ response[r].status # 401
YesPrice(m) == m.outcomePrices[1]
Inside(m) == YesPrice(m) > 200000 /\ YesPrice(m) < 9800000
FairMinusMarket(m) == BinaryPricing.modelFair - YesPrice(m) * 100
EdgeExpected(m) == Inside(m) /\ Abs(FairMinusMarket(m)) >= 3 * ONE

\* C9: the signals of a scan are, in order, exactly the scanned markets with
\* a yes price strictly inside (0.02, 0.98) whose model fair value is at least
\* 3.0 points away from the market price, each with side BUY when the model
\* is above the market and SELL otherwise.
C9_SignalIffEdge ==
  \A r \in Reqs :
    Scanned(r) =>
      LET expected == SelectSeq(markets[r], EdgeExpected)
      IN /\ Len(signals[r]) = Len(expected)
         /\ \A i \in 1..Len(expected) :
              /\ signals[r][i].market = expected[i]
              /\ signals[r][i].divergence = FairMinusMarket(expected[i])
              /\ signals[r][i].side =
                   (IF FairMinusMarket(expected[i]) > 0 THEN "BUY" ELSE "SELL")

\* C9 witness: a scan of three markets returned a BUY and a SELL signal and
\* passed over one market inside the threshold.
C9_Witness ==
  \E r \in Reqs :
    /\ pc[r] = "scan_return"
    /\ Len(markets[r]) = 3
    /\ Len(signals[r]) = 2
    /\ {signals[r][1].side, signals[r][2].side} = {"BUY", "SELL"}
    /\ \E i \in 1..3 : Inside(markets[r][i]) /\ ~EdgeExpected(markets[r][i])

\* a market quoted at 0.45 whose question names no coin, so that the scan
\* falls back to the default spot
DefaultSpotAt45(m) == YesPrice(m) = 4500000 /\ m.question = {}

\* C10, as stated: a market quoted at 0.45 yields no signal and a SKIP entry.
C10_SkipAt45 ==
  \A r \in Reqs :
    Scanned(r) =>
      \A i \in 1..Len(markets[r]) :
        DefaultSpotAt45(markets[r][i]) =>
          /\ \A j \in 1..Len(signals[r]) : signals[r][j].market # markets[r][i]
          /\ \E k \in 2..Len(scanLogs[r]) :
               /\ scanLogs[r][k].action = "SKIP"
               /\ scanLogs[r][k - 1].details[2] = 45 * ONE

\* C10, amended: with the default constants the model fair value is about
\* 49.98, so a market quoted at 0.45 diverges by about +4.98 points: the scan
\* logs TRADE and emits a BUY signal for it.
C10_TradeAt45 ==
  \A r \in Reqs :
    Scanned(r) =>
      \A i \in 1..Len(markets[r]) :
        DefaultSpotAt45(markets[r][i]) =>
          /\ \E j \in 1..Len(signals[r]) :
               /\ signals[r][j].market = markets[r][i]
               /\ signals[r][j].side = "BUY"
               /\ signals[r][j].asset = "BTC"
               /\ signals[r][j].divergence > 49 * (ONE \div 10)
               /\ signals[r][j].divergence < 5 * ONE
          /\ \E k \in 2..Len(scanLogs[r]) :
               /\ scanLogs[r][k].action = "TRADE"
               /\ scanLogs[r][k].details[2] = "BUY"
               /\ scanLogs[r][k - 1].action = "SCAN"
               /\ scanLogs[r][k - 1].details[2] = 45 * ONE

\* C10 witness: a scan has returned from a list holding the 0.45 market.
C10_Witness ==
  \E r \in Reqs :
    /\ pc[r] = "scan_return"
    /\ \E i \in 1..Len(markets[r]) : DefaultSpotAt45(markets[r][i])
    /\ signals[r] # <<>>

(***************************************************************************)
(* Properties of the Kelly sizing.                                         *)
(***************************************************************************)
\* the stake the sizing rule prescribes for a signal: a quarter of
\* (p b - q) / b, kept within [0, 0.05]
KellyApplied(signal) ==
  LET p == signal.modelFair \div 100
      mktP == signal.mktPrice \div 100
      b == IF signal.side = "BUY" THEN FDiv(ONE, mktP) - ONE
                                  ELSE FDiv(ONE, ONE - mktP) - ONE
      q == ONE - p
      applied == FMul(FDiv(FMul(p, b) - q, b), 2500000)
  IN IF applied < 0 THEN 0 ELSE IF applied > 500000 THEN 500000 ELSE applied

\* C11: every position carries the quarter-Kelly fraction of its signal,
\* clamped to [0, 0.05], and is sized at the balance times that fraction; a
\* BUY at p = 0.55 against a market at 0.50 carries 0.025 and is sized at
\* 2.5 % of the balance.
C11_QuarterKelly ==
  \A r \in Reqs : \A i \in 1..Len(positions[r]) :
    LET pos == positions[r][i]
    IN /\ pos.kellyFraction = KellyApplied(pos.signal)
       /\ pos.sizeUSD = FMul(balance[r], KellyApplied(pos.signal))
       /\ pos.signal = SignalKelly =>
            pos.kellyFraction = 250000 /\ pos.sizeUSD = balance[r] \div 40

\* C11 witness: sizePositions has returned a position for the scenario's
\* signal.
C11_Witness ==
  \E r \in Reqs :
    /\ pc[r] = "size_return"
    /\ \E i \in 1..Len(positions[r]) :
         /\ positions[r][i].signal = SignalKelly
         /\ positions[r][i].sizeUSD = balance[r] \div 40

\* the price of the side a signal buys
ExecutionPrice(signal) ==
  IF signal.side = "BUY" THEN signal.mktPrice \div 100 ELSE ONE - signal.mktPrice \div 100

\* C12: every position holds a whole number of shares, at least one, the
\* largest number whose cost at the execution price (mktP for BUY, 1 - mktP
\* for SELL) does not exceed sizeUSD, and a Kelly fraction in (0, 0.05].
C12_WholeShares ==
  \A r \in Reqs : \A i \in 1..Len(positions[r]) :
    LET pos == positions[r][i]
    IN /\ pos.shares \in Nat
       /\ pos.shares >= 1
       /\ pos.shares * ExecutionPrice(pos.signal) <= pos.sizeUSD
       /\ (pos.shares + 1) * ExecutionPrice(pos.signal) > pos.sizeUSD
       /\ pos.kellyFraction > 0
       /\ pos.kellyFraction <= 500000

\* C12 witness: a SELL position whose sizeUSD is no whole multiple of its
\* execution price has been returned.
C12_Witness ==
  \E r \in Reqs :
    /\ pc[r] = "size_return"
    /\ \E i \in 1..Len(positions[r]) :
         /\ positions[r][i].signal.side = "SELL"
         /\ positions[r][i].shares * ExecutionPrice(positions[r][i].signal)
              < positions[r][i].sizeUSD

(***************************************************************************)
(* Properties of the exposure seeding.                                     *)
(***************************************************************************)
RECURSIVE RemainingExposure(_)
RemainingExposure(openOrders) ==
  IF openOrders = <<>> THEN 0
  ELSE FMul(Head(openOrders).price.v,
            Head(openOrders).original_size.v - Head(openOrders).size_matched.v)
       + RemainingExposure(Tail(openOrders))

\* the open-order lookup of the sizing pass has been answered
Seeded(r) == pc[r] = "size_loop" /\ idx[r] = 1

\* C13: when the loop over the signals starts, the running exposure is the
\* sum over the open orders of price times remaining size (original size
\* less matched size).
C13_SeededFromRemaining ==
  \A r \in Reqs :
    Seeded(r) =>
      \A k \in 1..Len(calls[r]) :
        (calls[r][k][1] = "getOpenOrders" /\ calls[r][k][2].ok) =>
          totalExposure[r] = RemainingExposure(calls[r][k][2].value)

\* C14: once the open-order lookup of a sizing pass has failed, the sizing
\* log holds an entry recording it (an entry other than the exposure HALT).
C14_FallbackLogged ==
  \A r \in Reqs :
    (pc[r] \in {"size_loop", "size_return"}
       /\ \E k \in 1..Len(calls[r]) :
            calls[r][k][1] = "getOpenOrders" /\ ~calls[r][k][2].ok)
    => \E j \in 1..Len(sizeLogs[r]) : sizeLogs[r][j] # HaltEntry

\* C15: once a HALT entry has been logged in a cycle, no order is placed and
\* neither the execute step nor the monitor step runs in that cycle.
HaltLogged(r) ==
  \E j \in 1..Len(sizeLogs[r]) : sizeLogs[r][j].action = "HALT"
C15_HaltEndsCycle ==
  \A r \in Reqs :
    HaltLogged(r)
    => /\ pc[r] \notin {"execute", "exec_return", "monitor", "monitor_return"}
       /\ \A k \in 1..Len(calls[r]) : calls[r][k][1] # "placeOrder"
       /\ execLogs[r] = <<>>
       /\ monitorLogs[r] = <<>>

\* C16: executeTrades sends a position of its batch to the venue only while
\* the exposure of the orders it has placed so far is below 40 % of the
\* balance the batch was sized against.
RECURSIVE PlacedExposure(_)
PlacedExposure(rs) ==
  IF rs = <<>> THEN 0 ELSE Head(rs).position.sizeUSD + PlacedExposure(Tail(rs))
OrderSent(r) ==
  /\ Len(calls'[r]) = Len(calls[r]) + 1
  /\ calls'[r][Len(calls'[r])][1] = "placeOrder"
C16_HaltMidBatch ==
  [][\A r \in Reqs :
       OrderSent(r) => ~CapReached(PlacedExposure(results[r]), balance[r])]_vars

(***************************************************************************)
(* Order of the log of one cycle.                                          *)
(***************************************************************************)
RECURSIVE IsSubseq(_, _)
IsSubseq(a, b) ==
  IF a = <<>> THEN TRUE
  ELSE IF b = <<>> THEN FALSE
  ELSE IF Head(a) = Head(b) THEN IsSubseq(Tail(a), Tail(b))
  ELSE IsSubseq(a, Tail(b))

SeqMap(Op(_), xs) == [k \in 1..Len(xs) |-> Op(xs[k])]
IsScanEntry(l) == l.action = "SCAN"
IsPlaceOrder(call) == call[1] = "placeOrder"
MarketOf(signal) == signal.market
SignalOf(position) == position.signal
ScanPriceOf(l) == l.details[2]
QuotedPrice(market) == YesPrice(market) * 100

\* the log of the cycle as far as the steps that have returned
LogSoFar(r) ==
  IF pc[r] \in {"idle", "scan", "scan_return"} THEN <<>>
  ELSE IF pc[r] \in {"size_balance", "size_orders", "size_loop", "size_return"}
  THEN scanLogs[r]
  ELSE IF pc[r] \in {"execute", "exec_return"} THEN scanLogs[r] \o sizeLogs[r]
  ELSE IF pc[r] \in {"monitor", "monitor_return"}
  THEN scanLogs[r] \o sizeLogs[r] \o execLogs[r]
  ELSE IF signals[r] = <<>>
  THEN scanLogs[r] \o <<Log("SKIP", NoAsset, <<"no_signals">>)>>
  ELSE IF positions[r] = <<>>
  THEN scanLogs[r] \o sizeLogs[r] \o <<Log("SKIP", NoAsset, <<"no_positions">>)>>
  ELSE scanLogs[r] \o sizeLogs[r] \o execLogs[r] \o monitorLogs[r]

\* C17: the log of a cycle is its scan entries, then its sizing entries, then
\* its execute entries, then its monitor entries; the SCAN entries follow the
\* order of the market list; the execute entries and the orders follow the
\* order of the positions, whose signals are a subsequence of the signal list,
\* whose markets are a subsequence of the market list.
C17_CausalOrder ==
  \A r \in Reqs :
    (err[r] = NoErr /\ response[r].status # 401)
    => /\ allLogs[r] = LogSoFar(r)
       /\ SeqMap(ScanPriceOf, SelectSeq(scanLogs[r], IsScanEntry))
            = SeqMap(QuotedPrice, SelectSeq(markets[r], Inside))
       /\ Len(execLogs[r]) = Len(SelectSeq(calls[r], IsPlaceOrder))
       /\ \A k \in 1..Len(execLogs[r]) :
            /\ execLogs[r][k].asset = positions[r][k].signal.asset
            /\ SelectSeq(calls[r], IsPlaceOrder)[k][2].tokenID
                 = positions[r][k].signal.market.id
       /\ IsSubseq(SeqMap(SignalOf, positions[r]), signals[r])
       /\ IsSubseq(SeqMap(MarketOf, signals[r]), markets[r])

\* C17 witness: a finished cycle that ran all four steps over three markets,
\* with entries of every step in its log.
C17_Witness ==
  \E r \in Reqs :
    /\ pc[r] = "done" /\ err[r] = NoErr
    /\ Len(markets[r]) = 3
    /\ Len(scanLogs[r]) > 3
    /\ execLogs[r] # <<>>
    /\ sizeLogs[r] # <<>>
    /\ monitorLogs[r] # <<>>
    /\ allLogs[r] = scanLogs[r] \o sizeLogs[r] \o execLogs[r] \o monitorLogs[r]

(***************************************************************************)
(* Log entries of the scan.                                                *)
(***************************************************************************)
Evaluated(r) == SelectSeq(markets[r], Inside)
Matched(m) == m.question \cap {"bitcoin", "btc", "ethereum", "eth", "solana", "sol",
                                "ripple", "xrp", "pax-gold", "gold"} # {}

Extreme(price) == price <= 200000 \/ price >= 9800000
C19_NoSignalAtExtremes ==
  \A r \in Reqs :
    Scanned(r) =>
      \A i \in 1..Len(signals[r]) :
        LET both == parseOutcomePrices(signals[r][i].market.outcomePrices)
        IN ~Extreme(both[1]) /\ ~Extreme(both[2])

(***************************************************************************)
(* No retry inside a cycle.                                                *)
(***************************************************************************)
IsPrefix(a, b) == Len(a) <= Len(b) /\ \A k \in 1..Len(a) : a[k] = b[k]

\* the external calls of a cycle that runs every step
LongestPath(r) ==
  ScanCalls \o <<"getClobBalance", "getOpenOrders">>
    \o Repeat("placeOrder", Len(positions[r])) \o <<"getOpenOrders">>

\* C20: the external calls of a cycle are at all times a prefix of: the two
\* fetches, one balance lookup, one open-order lookup, one placeOrder per
\* position in position order, the monitor's lookup.  Nothing is called after
\* a failed balance lookup, which leaves no position; a failed open-order
\* lookup of sizing is followed by the first order, if by anything; and once
\* executeTrades has returned, a batch with F failed orders has seen exactly
\* one placeOrder per position.
C20_NoRetry ==
  \A r \in Reqs :
    LET orders == SelectSeq(calls[r], IsPlaceOrder)
    IN /\ IsPrefix(CallNames(r), LongestPath(r))
       /\ \A k \in 1..Len(orders) :
            orders[k][2].tokenID = positions[r][k].signal.market.id
       /\ \A k \in 1..Len(calls[r]) :
            /\ (calls[r][k][1] = "getClobBalance" /\ ~calls[r][k][2].ok)
                 => k = Len(calls[r]) /\ positions[r] = <<>>
            /\ (calls[r][k][1] = "getOpenOrders" /\ ~calls[r][k][2].ok /\ k < Len(calls[r]))
                 => calls[r][k + 1][1] = "placeOrder"
       /\ ExecutedAll(r) =>
            /\ Len(orders) = Len(positions[r])
            /\ Len(execLogs[r]) = Len(positions[r])

\* C20 witness: a finished cycle whose open-order lookup failed in sizing and
\* whose first of two orders failed: four venue calls after the balance
\* lookup, two of them placeOrder.
C20_Witness ==
  \E r \in Reqs :
    /\ pc[r] = "done"
    /\ Len(positions[r]) = 2
    /\ ~calls[r][4][2].ok
    /\ execLogs[r][1].action = "ERROR"
    /\ Len(SelectSeq(calls[r], IsPlaceOrder)) = 2
    /\ Len(calls[r]) = 7

(***************************************************************************)
(* monitorPositions.                                                       *)
(***************************************************************************)
IsMatched(order) == order.size_matched.v > 0
MonitorEntry(order) == Log("SCAN", NoAsset, <<"monitoring", order.asset_id>>)
MonitorStep(r) == pc[r] = "monitor" /\ pc'[r] = "monitor_return"

\* C21: the monitor step makes one call, the open-order lookup, and throws
\* nothing; answered with a list it logs one SCAN entry for each order with
\* matched size above zero, in the order of the list, and nothing else; when
\* the lookup fails it logs one ERROR entry and nothing else.  It leaves the
\* positions and the placed orders as they were.
C21_MonitorOnlyObserves ==
  [][\A r \in Reqs :
       MonitorStep(r) =>
         LET lookup == calls'[r][Len(calls'[r])]
         IN /\ calls'[r] = Append(calls[r], lookup)
            /\ lookup[1] = "getOpenOrders"
            /\ monitorLogs'[r] =
                 (IF lookup[2].ok
                  THEN SeqMap(MonitorEntry, SelectSeq(lookup[2].value, IsMatched))
                  ELSE <<Log("ERROR", NoAsset, <<"monitor_failed">>)>>)
            /\ err'[r] = NoErr
            /\ results'[r] = results[r] /\ positions'[r] = positions[r]]_vars

\* C21 witness: the monitor was answered with an unmatched order followed by
\* a matched one and logged the matched one only.
C21_Witness ==
  \E r \in Reqs :
    /\ pc[r] = "monitor_return"
    /\ LET lookup == calls[r][Len(calls[r])]
       IN /\ lookup[2].ok
          /\ Len(lookup[2].value) = 2
          /\ ~IsMatched(lookup[2].value[1])
          /\ monitorLogs[r] = <<MonitorEntry(lookup[2].value[2])>>

(***************************************************************************)
(* The guard of the route.                                                 *)
(***************************************************************************)
SecretConfigured(r) == request[r].cronSecret = "s3cret"
HeaderIsBearerSecret(r) == request[r].authorization = <<"Bearer ", "s3cret">>
NothingRan(r) ==
  /\ calls[r] = <<>>
  /\ allLogs[r] = <<>> /\ scanLogs[r] = <<>> /\ positions[r] = <<>> /\ results[r] = <<>>

\* C22: a delivered request runs a cycle exactly when CRON_SECRET is
\* configured and its Authorization header is 'Bearer <CRON_SECRET>'; every
\* other request is answered 401 at once, makes no external call, places no
\* order and leaves the execution-log store as it was.
C22_CycleOnlyWithSecret ==
  \A r \in Reqs :
    pc[r] # "idle" =>
      IF SecretConfigured(r) /\ HeaderIsBearerSecret(r)
      THEN response[r].status # 401 /\ (pc[r] = "done" => calls[r] # <<>>)
      ELSE /\ pc[r] = "done"
           /\ response[r] = Response(401, NoSummary, <<>>, "Unauthorized")
           /\ NothingRan(r)
           /\ store = [logs |-> <<>>, positions |-> <<>>]

\* C22 witness: with CRON_SECRET unset, a request carrying the header
\* 'Bearer undefined' has been answered 401.
C22_Witness ==
  \E r \in Reqs :
    /\ pc[r] = "done"
    /\ request[r] = [authorization |-> <<"Bearer ", "undefined">>, cronSecret |-> Undefined]
    /\ response[r].status = 401
    /\ NothingRan(r)

(***************************************************************************)
(* Signals that take no stake.                                             *)
(***************************************************************************)
TakesNoStake(signal, bal) ==
  \/ KellyApplied(signal) <= 0
  \/ FMul(bal, KellyApplied(signal)) < ExecutionPrice(signal)
SizingPass(r) == pc[r] = "size_loop" /\ pc'[r] \in {"size_loop", "size_return"}

\* C23: a pass of the sizing loop below the exposure limit over a signal
\* whose clamped Kelly fraction is not positive, or whose stake buys less than
\* one share, appends no position and no log entry and leaves the running
\* exposure as it was; a pass over any other signal appends its position and
\* adds exactly its sizeUSD.
C23_DroppedLeavesNoTrace ==
  [][\A r \in Reqs :
       (SizingPass(r) /\ ~CapReached(totalExposure[r], balance[r])) =>
         /\ sizeLogs'[r] = sizeLogs[r]
         /\ idx'[r] = idx[r] + 1
         /\ IF TakesNoStake(signals[r][idx[r]], balance[r])
            THEN positions'[r] = positions[r] /\ totalExposure'[r] = totalExposure[r]
            ELSE /\ Len(positions'[r]) = Len(positions[r]) + 1
                 /\ totalExposure'[r] - totalExposure[r]
                      = positions'[r][Len(positions'[r])].sizeUSD]_vars

\* C23 witness: sizing has returned one position from two signals, the first
\* of them dropped for its Kelly fraction, with the exposure at the one
\* position's sizeUSD.
C23_Witness ==
  \E r \in Reqs :
    /\ pc[r] = "size_return"
    /\ Len(signals[r]) = 2
    /\ KellyApplied(signals[r][1]) <= 0
    /\ TakesNoStake(signals[r][1], balance[r])
    /\ Len(positions[r]) = 1
    /\ positions[r][1].signal = signals[r][2]
    /\ sizeLogs[r] = <<>>
    /\ totalExposure[r] = positions[r][1].sizeUSD

\* C25: every position carries one half of the full Kelly fraction of its
\* signal, cut to the per-position cap of 0.05.
HalfKelly(signal) ==
  LET p == signal.modelFair \div 100
      mktP == signal.mktPrice \div 100
      b == IF signal.side = "BUY" THEN FDiv(ONE, mktP) - ONE
                                  ELSE FDiv(ONE, ONE - mktP) - ONE
      half == FDiv(FMul(p, b) - (ONE - p), b) \div 2
  IN IF half < 0 THEN 0 ELSE IF half > 500000 THEN 500000 ELSE half
C25_HalfKelly ==
  \A r \in Reqs : \A i \in 1..Len(positions[r]) :
    positions[r][i].kellyFraction = HalfKelly(positions[r][i].signal)

\* C26: after a cycle has completed, GET /api/treasury/execution-logs answers
\* with the cycle's logs and with one position for each open order the venue
\* reported to the cycle.
C26_LogsAndOpenPositions ==
  \A r \in Reqs :
    (pc[r] = "done" /\ response[r].status = 200)
    => /\ getExecutionLogs.logs = allLogs[r]
       /\ \A k \in 1..Len(calls[r]) :
            (k = Len(calls[r]) /\ calls[r][k][1] = "getOpenOrders" /\ calls[r][k][2].ok)
            => Len(getExecutionLogs.positions) = Len(calls[r][k][2].value)

\* C27: when the upstream answer holds no price for the coins, no CoinPrice
\* handed to the scan reports a price of 0.
C27_UnavailableNotZero ==
  (feed.spot = Missing /\ pricesCache # NoCache)
  => \A k \in 1..Len(pricesCache.data) : pricesCache.data[k].usd # 0

(***************************************************************************)
(* The price cache.                                                        *)
(***************************************************************************)
PricesFetched(r) ==
  /\ Len(calls'[r]) = Len(calls[r]) + 1
  /\ calls'[r][Len(calls'[r])][1] = "fetchPrices"

\* C28: a call of fetchPrices with a cache entry younger than 30 s asks no
\* upstream and returns the entry's data, the cache staying as it is; the
\* cache changes only on an upstream answer, to that answer's data stamped
\* with the time of the call; an upstream that fails while an entry exists
\* leaves the cache as it is and returns the entry's data; the call fails
\* only when the upstream was asked and no entry exists.
C28_PriceCache ==
  [][\A r \in Reqs :
       PricesFetched(r) =>
         LET answer == calls'[r][Len(calls'[r])][2]
             young == pricesCache.set /\ now - pricesCache.ts < 30000
         IN /\ young <=> ~answer.upstream
            /\ young => pricesCache' = pricesCache /\ answer.value = pricesCache.data
            /\ pricesCache' # pricesCache =>
                 /\ answer.ok
                 /\ answer.value = CoinPrices(feed.spot)
                 /\ pricesCache' = [set |-> TRUE, data |-> answer.value, ts |-> now]
            /\ (answer.upstream /\ pricesCache' = pricesCache /\ pricesCache.set) =>
                 answer.ok /\ answer.value = pricesCache.data
            /\ answer.ok <=> (pricesCache.set \/ pricesCache'.set)]_vars

\* C28 witness: three calls in a row: answered upstream, answered from the
\* young entry, and, the entry grown old, answered with its stale data while
\* the upstream quotes another price.
C28_Witness ==
  \E r \in Reqs :
    /\ Len(calls[r]) = 3
    /\ calls[r][1][2].upstream /\ calls[r][1][2].ok
    /\ ~calls[r][2][2].upstream
    /\ calls[r][3][2].upstream /\ calls[r][3][2].ok
    /\ calls[r][3][2].value = calls[r][1][2].value
    /\ calls[r][3][2].value # CoinPrices(feed.spot)
    /\ pricesCache.ts = 0 /\ now >= 30000

(***************************************************************************)
(* The distribute route.                                                   *)
(***************************************************************************)
Distributing(r) == pc[r] \in {"snapshot", "transfer"} \/ (pc[r] = "done" /\ r \notin pending)
BadWeek(body) ==
  ~body.json \/ ~body.epochPnL.whole \/ body.epochPnL.v <= 0

\* C29: a request to the distribute route whose epochPnL is not a number or
\* is not positive takes no holder snapshot and requests no transfer; so does
\* a request whose x-admin-secret header is missing or wrong, which is
\* answered 401.
C29_NothingInBadWeek ==
  \A r \in Reqs :
    Distributing(r) =>
      /\ BadWeek(request[r].body) => calls[r] = <<>>
      /\ (request[r].adminSecret = NullHeader
            \/ request[r].adminSecret # request[r].envSecret) =>
           calls[r] = <<>> /\ response[r].status = 401

(***************************************************************************)
(* normalCDF against the standard normal distribution.                     *)
(***************************************************************************)
\* the standard normal CDF at -6.05, -6 .. 6.05, to the nearest 1e-7
ReferenceTable ==
  <<
     0, 0, 0, 0, 0, 0, 0, 0,
     0, 0, 0, 0, 0, 0, 0, 1,
     1, 1, 1, 2, 2, 3, 4, 5,
     6, 8, 10, 13, 17, 21, 27, 34,
     43, 54, 68, 85, 107, 133, 166, 207,
     256, 317, 391, 481, 591, 723, 884, 1078,
     1311, 1591, 1926, 2326, 2803, 3369, 4041, 4834,
     5770, 6871, 8164, 9676, 11442, 13499, 15889, 18658,
     21860, 25551, 29798, 34670, 40246, 46612, 53861, 62097,
     71428, 81975, 93867, 107241, 122245, 139034, 157776, 178644,
     201822, 227501, 255881, 287166, 321568, 359303, 400592, 445655,
     494715, 547993, 605708, 668072, 735293, 807567, 885080, 968005,
     1056498, 1150697, 1250719, 1356661, 1468591, 1586553, 1710561, 1840601,
     1976625, 2118554, 2266274, 2419637, 2578461, 2742531, 2911597, 3085375,
     3263552, 3445783, 3631693, 3820886, 4012937, 4207403, 4403823, 4601722,
     4800612, 5000000, 5199388, 5398278, 5596177, 5792597, 5987063, 6179114,
     6368307, 6554217, 6736448, 6914625, 7088403, 7257469, 7421539, 7580363,
     7733726, 7881446, 8023375, 8159399, 8289439, 8413447, 8531409, 8643339,
     8749281, 8849303, 8943502, 9031995, 9114920, 9192433, 9264707, 9331928,
     9394292, 9452007, 9505285, 9554345, 9599408, 9640697, 9678432, 9712834,
     9744119, 9772499, 9798178, 9821356, 9842224, 9860966, 9877755, 9892759,
     9906133, 9918025, 9928572, 9937903, 9946139, 9953388, 9959754, 9965330,
     9970202, 9974449, 9978140, 9981342, 9984111, 9986501, 9988558, 9990324,
     9991836, 9993129, 9994230, 9995166, 9995959, 9996631, 9997197, 9997674,
     9998074, 9998409, 9998689, 9998922, 9999116, 9999277, 9999409, 9999519,
     9999609, 9999683, 9999744, 9999793, 9999834, 9999867, 9999893, 9999915,
     9999932, 9999946, 9999957, 9999966, 9999973, 9999979, 9999983, 9999987,
     9999990, 9999992, 9999994, 9999995, 9999996, 9999997, 9999998, 9999998,
     9999999, 9999999, 9999999, 9999999, 10000000, 10000000, 10000000, 10000000,
     10000000, 10000000, 10000000, 10000000, 10000000, 10000000, 10000000, 10000000,
     10000000, 10000000, 10000000
  >>
ReferenceCDF(x) == ReferenceTable[x \div GridStep + (Len(ReferenceTable) + 1) \div 2]
Tolerance == ONE \div 1000000            \* 1e-6

\* C30: for every x of the grid on [-6, 6], the value normalCDF returns is
\* within 1e-6 of the standard normal CDF at x.
C30_NormalCDFAccurate ==
  cdf.returned => Abs(cdf.y - ReferenceCDF(cdf.x)) <= Tolerance
\* a call in the tail, where the value is below 1e-6 and not zero, has returned
C30_Witness ==
  /\ cdf.returned
  /\ cdf.x = -5 * ONE
  /\ ReferenceCDF(cdf.x) > 0

(***************************************************************************)
(* The summary of a cycle.                                                 *)
(***************************************************************************)
\* C31: the 'trades' count of a cycle's summary, which is the number of TRADE
\* entries of the cycle log, equals the number of orders placed in the cycle.
C31_TradesCountPlaced ==
  \A r \in Reqs :
    (pc[r] = "done" /\ response[r].status = 200) =>
      /\ response[r].summary.trades = Count(response[r].logs, "TRADE")
      /\ response[r].summary.trades = Len(results[r])

(***************************************************************************)
(* The orders executeTrades sends.                                         *)
(***************************************************************************)
Notional(order) == order.price * order.size

\* C32: every order executeTrades sends has a notional, its tick-rounded
\* limit price times its shares, of at most the sizeUSD of its position, and
\* so of at most 5 % of the balance of 100 the position was sized against.
C32_NotionalWithinSize ==
  \A r \in Reqs :
    LET orders == SelectSeq(calls[r], IsPlaceOrder)
    IN \A k \in 1..Len(orders) :
         /\ Notional(orders[k][2]) <= positions[r][k].sizeUSD
         /\ Notional(orders[k][2]) <= FMul(100 * ONE, MAX_POSITION_PCT)

(***************************************************************************)
(* The cap when the open-orders response is malformed.                     *)
(***************************************************************************)
SizedBefore(r, k) == SumSizeUSD(SubSeq(positions[r], 1, k - 1))

\* C33: whatever the open-orders response holds, a signal is sized only while
\* the positions sized before it in the pass stay below 40 % of the balance.
C33_CapSurvivesMalformedOrders ==
  \A r \in Reqs : \A k \in 1..Len(positions[r]) :
    ~CapReached(SizedBefore(r, k), balance[r])

(***************************************************************************)
(* The page's decision against the engine's.                               *)
(***************************************************************************)
\* C34: for one model fair value and one market price, the page shows TRADE
\* exactly when scanForEdge's test of the divergence emits a signal.
C34_PageAgreesWithEngine ==
  derived.signal # "none" =>
    (derived.signal = "TRADE" <=> HasEdge(derived.model_fair - derived.mkt_price))

(***************************************************************************)
(* How many orders a cycle can place.                                      *)
(***************************************************************************)
\* the places of a categorized result that hold a market of the event
PlacesOf(evt, result) ==
  { <<cat, k>> \in (DOMAIN result) \X (1..MaxEvents) :
      k <= Len(result[cat]) /\ \E i \in 1..Len(evt.markets) : result[cat][k] = evt.markets[i] }

\* what fetchCategorizedMarkets returns for every event list: at most
\* PER_CATEGORY markets per category, each with a yes price strictly inside
\* (0.02, 0.98); an event fills at most one place, in a category its title
\* matches, and a blocklisted event fills none
CategorizedWell ==
  \A events \in EventLists :
    LET result == Categorize(events, NoMarkets)
    IN /\ \A cat \in DOMAIN result :
            /\ Len(result[cat]) <= PER_CATEGORY
            /\ \A k \in 1..Len(result[cat]) : Inside(result[cat][k])
       /\ \A i \in 1..Len(events) :
            /\ Cardinality(PlacesOf(events[i], result)) <= 1
            /\ events[i].blocked => PlacesOf(events[i], result) = {}
            /\ \A place \in PlacesOf(events[i], result) : place[1] \in events[i].allow

\* C35: a cycle places at most 3 orders: fetchCategorizedMarkets returns at
\* most PER_CATEGORY markets per category, one per event at most and none for
\* a blocklisted event, each with a yes price strictly inside (0.02, 0.98);
\* the scan emits at most one signal per crypto market, sizing at most one
\* position per signal, and executeTrades one placeOrder call per position.
C35_AtMostThreeOrders ==
  /\ CategorizedWell
  /\ Len(feed.markets) <= PER_CATEGORY
  /\ \A r \in Reqs :
       LET orders == SelectSeq(calls[r], IsPlaceOrder)
       IN /\ Len(markets[r]) <= PER_CATEGORY
          /\ Len(signals[r]) <= Len(markets[r])
          /\ Len(positions[r]) <= Len(signals[r])
          /\ Len(orders) <= Len(positions[r])
          /\ Len(orders) <= 3
\* a cycle has placed three orders
C35_Witness ==
  /\ pc[1] = "done"
  /\ Len(SelectSeq(calls[1], IsPlaceOrder)) = 3
  /\ Len(feed.markets) = 3

(***************************************************************************)
(* What a trigger does to the execution-log store.                         *)
(***************************************************************************)
\* the step ends a cycle of request r with a 200 answer
Succeeds(r) == pc[r] = "respond" /\ pc'[r] = "done" /\ response'[r].status = 200

\* C36: a step that ends a cycle successfully leaves in the store exactly the
\* log of that cycle; every other step, the end of a cycle that threw and the
\* rejection of an unauthorized request among them, leaves the stored logs and
\* positions as they were.
C36_StoreHoldsLastCycle ==
  [][ /\ \A r \in Reqs : Succeeds(r) => store'.logs = response'[r].logs
      /\ (\A r \in Reqs : ~Succeeds(r)) => store' = store ]_vars
\* both cycles succeeded with different logs, and the store holds the log of one
C36_Witness ==
  /\ \A r \in Reqs : pc[r] = "done" /\ response[r].status = 200
  /\ response[1].logs # response[2].logs
  /\ store.logs = response[1].logs

(***************************************************************************)
(* The fair value within one scan.                                         *)
(***************************************************************************)
\* the signals a scan emitted for a market
SignalsFor(r, market) == SelectSeq(signals[r], LAMBDA s : s.market = market)
\* the model values the SCAN entries of a scan carry
ScanFairs(r) == { scanLogs[r][k].details[3] : k \in {k \in 1..Len(scanLogs[r]) : IsScanEntry(scanLogs[r][k])} }

\* C37: within one scan every market is priced at one fair value, with one
\* d2 and one N(d2), whatever coin it matched, whatever the spot served and
\* whether the fallback spot was used; two markets with the same yes price
\* get the same divergence, the same side and the same decision.
C37_OneFairValue ==
  \A r \in Reqs :
    /\ Cardinality(ScanFairs(r)) <= 1
    /\ \A i, j \in 1..Len(signals[r]) :
         /\ signals[r][i].modelFair = signals[r][j].modelFair
         /\ signals[r][i].d2 = signals[r][j].d2
         /\ signals[r][i].Nd2 = signals[r][j].Nd2
         /\ signals[r][i].modelFair \in ScanFairs(r)
    /\ pc[r] = "scan_return" =>
         \A i, j \in 1..Len(markets[r]) :
           YesPrice(markets[r][i]) = YesPrice(markets[r][j]) =>
             LET si == SignalsFor(r, markets[r][i])
                 sj == SignalsFor(r, markets[r][j])
             IN /\ Len(si) = Len(sj)
                /\ Len(si) = 1 =>
                     /\ si[1].divergence = sj[1].divergence
                     /\ si[1].side = sj[1].side
\* a scan at a spot of 70000 priced three markets of one yes price: one that
\* names bitcoin, one that names ethereum and one that fell back to 66235
C37_Witness ==
  /\ pc[1] = "scan_return"
  /\ feed.spot = 70000
  /\ Len(signals[1]) = 3
  /\ {signals[1][k].market.question : k \in 1..3} = {{"bitcoin"}, {"eth", "ethereum"}, {}}

(***************************************************************************)
(* The amounts of a distribution.                                          *)
(***************************************************************************)
RECURSIVE SumAmounts(_)
SumAmounts(recipients) ==
  IF recipients = <<>> THEN 0 ELSE Head(recipients).amount + SumAmounts(Tail(recipients))
RECURSIVE SumShares(_)
SumShares(holders) == IF holders = <<>> THEN 0 ELSE Head(holders).share + SumShares(Tail(holders))
\* the epochPnL of a request, in whole dollars
Dollars(r) == parseFloatLead(request[r].body.epochPnL).v \div ONE

\* the shares of every snapshot taken lie in [0, 1] and add up to at most 1
SharesWithinOne(r) ==
  \A k \in 1..Len(calls[r]) :
    (calls[r][k][1] = "getAppleHolders" /\ calls[r][k][2].ok) =>
      LET holders == calls[r][k][2].value.holders
      IN /\ \A i \in 1..Len(holders) : holders[i].share >= 0 /\ holders[i].share <= ONE
         /\ SumShares(holders) <= ONE
\* the amounts of every transfer requested are positive and add up to at most
\* 80 % of epochPnL, in units of 10^-6 dollar
AmountsWithinProfit(r) ==
  \A k \in 1..Len(calls[r]) :
    calls[r][k][1] = "distributeUSDC" =>
      LET recipients == calls[r][k][2]
      IN /\ \A i \in 1..Len(recipients) : recipients[i].amount > 0
         /\ SumAmounts(recipients) <= Dollars(r) * 800000
\* the two parts computed at lines 35-36 add up to epochPnL
PartsMakeWhole(r) ==
  pc[r] \in {"snapshot", "transfer"} =>
    DoublePlus(Split(Dollars(r)).retained, Split(Dollars(r)).distributableAmount)
      = DoubleOf(Dollars(r))

\* C38: in a distribution the recipient amounts are positive and add up to at
\* most 80 % of epochPnL; the shares of a snapshot lie in [0, 1] and add up to
\* at most 1; the retained 20 % and the distributable 80 % add up to epochPnL.
C38_AmountsAndParts ==
  \A r \in Reqs : SharesWithinOne(r) /\ AmountsWithinProfit(r) /\ PartsMakeWhole(r)


\* C39: getAppleHolders scans every block of [startBlock, currentBlock]
\* exactly once: its getLogs chunks start at startBlock, each begins right
\* after the one before, none is empty or longer than 10,000 blocks, and
\* when the loop is over the last one ends at currentBlock, so that the
\* balances are the net transfers of exactly that range; the loop ends; and
\* the snapshot holds no excluded address and no address whose balance is
\* zero or negative.
Chunks == [k \in 1..Len(calls[1]) |-> calls[1][k][2]]
RECURSIVE NetOf(_, _)
NetOf(logs, address) ==
  IF logs = <<>> THEN 0
  ELSE NetOf(Tail(logs), address)
       + (IF Head(logs).toAddr = address THEN Head(logs).value ELSE 0)
       - (IF Head(logs).fromAddr = address /\ address # ZeroAddress
          THEN Head(logs).value ELSE 0)
Addresses == {ZeroAddress, "0xtoken", "0xpool", "0xa", "0xb", "0xc"}
ChunksInOrder ==
  \A k \in 1..Len(Chunks) :
    /\ Chunks[k].fromBlock = (IF k = 1 THEN apple.startBlock ELSE Chunks[k - 1].toBlock + 1)
    /\ Chunks[k].fromBlock <= Chunks[k].toBlock
    /\ Chunks[k].toBlock - Chunks[k].fromBlock + 1 <= CHUNK_SIZE
    /\ Chunks[k].toBlock <= apple.currentBlock
RangeCovered ==
  apple.pc = "done" =>
    /\ IF apple.startBlock <= apple.currentBlock
       THEN Len(Chunks) > 0 /\ Chunks[Len(Chunks)].toBlock = apple.currentBlock
       ELSE Len(Chunks) = 0
    /\ \A address \in Addresses :
         BalanceOf(apple.balances, address)
           = NetOf(getLogs(apple.chain, apple.startBlock, apple.currentBlock), address)
SnapshotClean ==
  \A k \in 1..Len(apple.snapshot.holders) :
    /\ apple.snapshot.holders[k].address \notin EXCLUDED_ADDRESSES
    /\ BalanceOf(apple.balances, apple.snapshot.holders[k].address) > 0
C39_EveryBlockOnce ==
  /\ [](ChunksInOrder /\ RangeCovered /\ SnapshotClean)
  /\ <>(apple.pc \in {"done", "threw"})
\* three chunks were read, the map holds an excluded address with a positive
\* balance and an address with none, and the snapshot names a holder
C39_Witness ==
  /\ apple.pc = "done"
  /\ Len(Chunks) >= 3
  /\ apple.snapshot.totalHolders >= 1
  /\ \E k \in 1..Len(apple.balances) :
       apple.balances[k].address \in EXCLUDED_ADDRESSES /\ apple.balances[k].balance > 0
  /\ \E k \in 1..Len(apple.balances) : apple.balances[k].balance <= 0

====
